---- MODULE Spec2Model ----
(***************************************************************************)
(* mCSD Update Client (component/mcsd): the synchronisation engine that    *)
(* pulls directory records from remote FHIR administration directories    *)
(* and replicates them into the local query directory.                     *)
(*                                                                         *)
(* Strings that the code splits on "/" (request URLs, references, bundle   *)
(* fullUrls) are modelled as the sequence of their segments; a nil Go      *)
(* pointer to such a string is the empty sequence << >>, the empty string  *)
(* is <<"">>.  Opaque strings (base URLs, ids, URA values) are strings.    *)
(* Timestamps are instants: naturals, 0 standing for "no timestamp".      *)
(***************************************************************************)
EXTENDS Integers, Sequences, FiniteSets, TLC

VARIABLES
    config,                     \* Component.config (the options the engine reads)
    administrationDirectories,  \* Component.administrationDirectories
    directoryResourceTypes,     \* Component.directoryResourceTypes
    lastUpdateTimes,            \* Component.lastUpdateTimes: directoryKey -> cursor
    stateFile,                  \* content of config.StateFile
    updateMux,                  \* Component.updateMux: 0 = free, else the holder
    pc,                         \* per caller: position inside update()
    run,                        \* per caller: locals of update()
    sync,                       \* per caller: locals of updateFromDirectory()
    runs,                       \* number of update() calls made so far
    prevFirst,                  \* history: per directoryKey, meta.lastUpdated of the
                                \* first bundle of the latest error-free sync ("" if none)
    input,                      \* argument of the pure function under test
    output                      \* its result

vars == << config, administrationDirectories, directoryResourceTypes, lastUpdateTimes,
           stateFile, updateMux, pc, run, sync, runs, prevFirst, input, output >>

-----------------------------------------------------------------------------
(* Bounds of the model *)

\* number of update() calls explored
MaxRuns == 2

-----------------------------------------------------------------------------
(* Program constants *)

rootDirectoryResourceTypes == << "Organization", "Endpoint" >>

defaultDirectoryResourceTypes ==
    << "Organization", "Endpoint", "Location", "HealthcareService", "PractitionerRole", "Practitioner" >>

maxDepth == 10

maxUpdateEntries == 1000

URANamingSystem == "http://fhir.nl/fhir/NamingSystem/ura"

\* the value written when the server's bundle carries no meta.lastUpdated:
\* queryStartTime.Add(-clockSkewBuffer).Format(time.RFC3339Nano)
LocalFallback == "local-2s"

-----------------------------------------------------------------------------
(* Generic helpers *)

Range(s) == { s[i] : i \in DOMAIN s }

Last(s) == s[Len(s)]

RECURSIVE Join(_)
\* strings.Join(segments, "/")
Join(segs) ==
    IF segs = << >> THEN ""
    ELSE IF Len(segs) = 1 THEN segs[1]
    ELSE segs[1] \o "/" \o Join(Tail(segs))

RECURSIVE SeqsOf(_)
\* every ordering of the elements of a finite set
SeqsOf(S) ==
    IF S = {} THEN { << >> }
    ELSE UNION { { << x >> \o t : t \in SeqsOf(S \ {x}) } : x \in S }

\* url.QueryEscape / url.Values.Encode of one value: an injective encoding
QueryEscape(s) == "q{" \o s \o "}"

-----------------------------------------------------------------------------
(* FHIR data: resources and bundle entries *)

NoMeta == [ source |-> "", versionId |-> "", lastUpdated |-> 0 ]

\* the fields of a resource body the engine reads or writes
Resource(type, id, ts) ==
    [ resourceType |-> type,
      id           |-> id,                 \* "" = no id field
      meta         |-> [ source |-> "", versionId |-> IF ts > 0 THEN "1" ELSE "", lastUpdated |-> ts ],
      ura          |-> << >>,              \* values of the identifiers in URANamingSystem
      partOf       |-> << >>,              \* partOf.reference, << >> = absent
      endpoint     |-> << >>,              \* endpoint[].reference
      owner        |-> << >>,              \* providedBy / managingOrganization / organization
      payloadMcsd  |-> FALSE,              \* payloadType contains coding.PayloadCoding
      address      |-> "",
      name         |-> "" ]

NoResource == Resource("", "", 0)

\* a fhir.BundleEntry
PutEntry(fullUrl, method, res) ==
    [ fullUrl |-> fullUrl, hasRequest |-> TRUE, method |-> method,
      url |-> << res.resourceType, res.id >>, hasResource |-> TRUE, resource |-> res ]

DeleteEntry(fullUrl, url) ==
    [ fullUrl |-> fullUrl, hasRequest |-> TRUE, method |-> "DELETE",
      url |-> url, hasResource |-> FALSE, resource |-> NoResource ]

\* a search result: no request part
SearchEntry(fullUrl, res) ==
    [ fullUrl |-> fullUrl, hasRequest |-> FALSE, method |-> "",
      url |-> << >>, hasResource |-> TRUE, resource |-> res ]

\* libfhir.ExtractResourceInfo
ExtractResourceInfo(res) ==
    [ ResourceType |-> res.resourceType, ID |-> res.id, LastUpdated |-> res.meta.lastUpdated ]

\* libfhir.BuildSourceURL(baseURL, parts...): {base}/{ResourceType}/{id}
BuildSourceURL(baseURL, parts) == baseURL \o "/" \o Join(parts)

-----------------------------------------------------------------------------
(* History deduplication (deduplicateHistoryEntries and its helpers) *)

\* getLastUpdated: 0 is the zero time.Time
getLastUpdated(entry) ==
    IF ~entry.hasResource THEN 0 ELSE ExtractResourceInfo(entry.resource).LastUpdated

\* a variant of isMoreRecent in which a timestamped entry also beats an entry
\* without timestamp
isMoreRecentOrUntimed(entry1, entry2) ==
    LET time1 == getLastUpdated(entry1)
        time2 == getLastUpdated(entry2)
    IN  time1 # 0 /\ (time2 = 0 \/ time1 > time2)

\* isMoreRecent(entry1, entry2)
isMoreRecent(entry1, entry2) ==
    LET time1 == getLastUpdated(entry1)
        time2 == getLastUpdated(entry2)
    IN  IF time1 # 0 /\ time2 # 0 THEN time1 > time2 ELSE FALSE

\* a variant of extractResourceIDFromURL that finds no ID in a DELETE entry
extractNothing(entry) == ""

\* extractResourceIDFromURL
extractResourceIDFromURL(entry) ==
    IF entry.hasRequest /\ entry.url # << "" >> /\ Len(entry.url) >= 2
    THEN entry.url[2]
    ELSE IF entry.fullUrl # << >> THEN Last(entry.fullUrl) ELSE ""

\* the resource ID deduplicateHistoryEntries derives for one entry ("" = none)
dedupResourceID(entry) ==
    IF ~entry.hasResource
    THEN IF entry.hasRequest /\ entry.method = "DELETE" THEN extractResourceIDFromURL(entry) ELSE ""
    ELSE ExtractResourceInfo(entry.resource).ID

RECURSIVE dedupLoop(_, _, _)
\* the first loop of deduplicateHistoryEntries: resourceMap and entriesWithoutID
dedupLoop(entries, resourceMap, entriesWithoutID) ==
    IF entries = << >>
    THEN [ resourceMap |-> resourceMap, entriesWithoutID |-> entriesWithoutID ]
    ELSE LET entry == Head(entries)
             resourceID == dedupResourceID(entry)
         IN  IF resourceID # ""
             THEN IF resourceID \notin DOMAIN resourceMap \/ isMoreRecent(entry, resourceMap[resourceID])
                  THEN dedupLoop(Tail(entries),
                                 [ k \in DOMAIN resourceMap \cup {resourceID} |->
                                     IF k = resourceID THEN entry ELSE resourceMap[k] ],
                                 entriesWithoutID)
                  ELSE dedupLoop(Tail(entries), resourceMap, entriesWithoutID)
             ELSE dedupLoop(Tail(entries), resourceMap, Append(entriesWithoutID, entry))

dedupMap(entries) == dedupLoop(entries, << >>, << >>)

\* a variant of deduplicateHistoryEntries that returns the entries without ID first
deduplicateTailFirst(entries) ==
    LET d == dedupMap(entries)
    IN  { d.entriesWithoutID \o [ i \in 1..Len(ord) |-> d.resourceMap[ord[i]] ] :
            ord \in SeqsOf(DOMAIN d.resourceMap) }

\* deduplicateHistoryEntries: Go ranges over resourceMap in an unspecified order, so
\* every ordering of the kept entries is a possible result; the entries without ID follow.
deduplicateHistoryEntries(entries) ==
    LET d == dedupMap(entries)
    IN  { [ i \in 1..Len(ord) |-> d.resourceMap[ord[i]] ] \o d.entriesWithoutID :
            ord \in SeqsOf(DOMAIN d.resourceMap) }

-----------------------------------------------------------------------------
(* Organization tree (createOrganizationTree, ensureParentOrganizationsMap) *)

\* the ID part of a reference: the text after the last "/"
extractReferenceID(ref) == IF ref = << >> THEN "" ELSE Last(ref)

RECURSIVE orgMapLoop(_, _)
\* orgMap of createOrganizationTree: organizations by id, a later entry replacing an earlier
orgMapLoop(entries, orgMap) ==
    IF entries = << >> THEN orgMap
    ELSE LET entry == Head(entries)
         IN  IF entry.hasResource /\ entry.resource.id # ""
             THEN orgMapLoop(Tail(entries),
                             [ k \in DOMAIN orgMap \cup {entry.resource.id} |->
                                 IF k = entry.resource.id THEN entry.resource ELSE orgMap[k] ])
             ELSE orgMapLoop(Tail(entries), orgMap)

RECURSIVE linksAtAnyDepth(_, _, _, _, _)
\* a variant of organizationLinksToParentRecursive without the depth limit
linksAtAnyDepth(orgMap, org, parentOrg, visited, depth) ==
    IF org.id \in visited THEN FALSE
    ELSE IF org.id = parentOrg.id THEN TRUE
    ELSE IF org.partOf = << >> THEN FALSE
    ELSE LET parentID == Last(org.partOf)
         IN  IF parentID \notin DOMAIN orgMap THEN FALSE
             ELSE linksAtAnyDepth(orgMap, orgMap[parentID], parentOrg,
                                  visited \cup {org.id}, depth + 1)

RECURSIVE organizationLinksToParentRecursive(_, _, _, _, _)
organizationLinksToParentRecursive(orgMap, org, parentOrg, visited, depth) ==
    IF depth > maxDepth THEN FALSE
    ELSE IF org.id \in visited THEN FALSE
    ELSE IF org.id = parentOrg.id THEN TRUE
    ELSE IF org.partOf = << >> THEN FALSE
    ELSE LET parentID == Last(org.partOf)
         IN  IF parentID \notin DOMAIN orgMap THEN FALSE
             ELSE organizationLinksToParentRecursive(orgMap, orgMap[parentID], parentOrg,
                                                     visited \cup {org.id}, depth + 1)

organizationLinksToParent(orgMap, org, parentOrg) ==
    organizationLinksToParentRecursive(orgMap, org, parentOrg, {}, 0)

\* a variant of findOrganizationsLinkedToParent that links direct children only
findDirectChildren(orgMap, parentOrg) ==
    { org \in Range(orgMap) : org.id # parentOrg.id /\ org.partOf # << >>
                              /\ Last(org.partOf) = parentOrg.id }

findOrganizationsLinkedToParent(orgMap, parentOrg) ==
    { org \in Range(orgMap) : org.id # parentOrg.id /\ organizationLinksToParent(orgMap, org, parentOrg) }

\* a parentOrganizationMap: one [root, linked] pair per URA-bearing organization
createOrganizationTree(entries) ==
    LET orgMap == orgMapLoop(entries, << >>)
    IN  { [ root |-> org, linked |-> findOrganizationsLinkedToParent(orgMap, org) ] :
            org \in { o \in Range(orgMap) : Len(o.ura) > 0 } }

\* a variant of filterByAuthoritativeUra that keeps every root
keepEveryRoot(tree, authoritativeUra) == tree

\* the filter of ensureParentOrganizationsMap
filterByAuthoritativeUra(tree, authoritativeUra) ==
    IF authoritativeUra # ""
    THEN { t \in tree : authoritativeUra \in Range(t.root.ura) }
    ELSE tree

-----------------------------------------------------------------------------
(* Validator (validator.go: ValidateUpdate, ValidateParentOrganizations) *)

KnownOrganizations(tree) == UNION { {t.root} \cup t.linked : t \in tree }

\* a variant of ValidateParentOrganizations that accepts every root
acceptEveryRoot(tree) == ""

\* ValidateParentOrganizations: "" or the error
ValidateParentOrganizations(tree) ==
    IF \E t \in tree : Len(t.root.ura) # 1 THEN "multiple URA identifiers" ELSE ""

RECURSIVE validatePartOfChain(_, _, _, _)
\* the partOf chain of org ends at a root of the tree
validatePartOfChain(org, tree, visited, depth) ==
    IF depth > maxDepth \/ org.partOf = << >> THEN FALSE
    ELSE LET parentID == extractReferenceID(org.partOf)
             parents == { o \in KnownOrganizations(tree) : o.id = parentID }
         IN  IF parentID \in visited \/ parents = {} THEN FALSE
             ELSE \E p \in parents :
                    \/ p \in { t.root : t \in tree }
                    \/ validatePartOfChain(p, tree, visited \cup {parentID}, depth + 1)

referencesKnownOrganization(ref, tree) ==
    /\ ref # << >>
    /\ \E o \in KnownOrganizations(tree) : o.id = extractReferenceID(ref)

listsEndpoint(res, endpointID) ==
    \E i \in DOMAIN res.endpoint : extractReferenceID(res.endpoint[i]) = endpointID

\* a variant of ValidateUpdate that accepts every resource
ValidateNothing(allowedResourceTypes, res, tree, allHealthcareServices) == ""

\* ValidateUpdate: "" when the resource is accepted, else the rejection
ValidateUpdate(allowedResourceTypes, res, tree, allHealthcareServices) ==
    IF res.resourceType \notin Range(allowedResourceTypes)
    THEN "resource type not allowed"
    ELSE CASE res.resourceType = "Organization" ->
                IF Len(res.ura) > 1 THEN "organization has multiple URA identifiers"
                ELSE IF Len(res.ura) = 1
                THEN IF \E t \in tree : res.ura[1] \in Range(t.root.ura)
                     THEN "" ELSE "organization URA does not match the authoritative URA"
                ELSE IF validatePartOfChain(res, tree, {res.id}, 0)
                     THEN "" ELSE "organization has no valid partOf chain"
           [] res.resourceType \in { "HealthcareService", "Location", "PractitionerRole" } ->
                IF referencesKnownOrganization(res.owner, tree)
                THEN "" ELSE "resource must reference a known organization"
           [] res.resourceType = "Endpoint" ->
                IF \/ \E o \in KnownOrganizations(tree) : listsEndpoint(o, res.id)
                   \/ \E i \in DOMAIN allHealthcareServices :
                        LET hs == allHealthcareServices[i].resource
                        IN  /\ hs.resourceType = "HealthcareService"
                            /\ referencesKnownOrganization(hs.owner, tree)
                            /\ listsEndpoint(hs, res.id)
                THEN "" ELSE "endpoint must be referenced by an organization or healthcare service"
           [] OTHER -> ""

-----------------------------------------------------------------------------
(* URLs: what url.Parse and strings.TrimRight(_, "/") yield for the URLs in use *)

RootA == "http://root-a/fhir"
RootB == "http://root-b/fhir"
Dir1 == "https://dir-1/fhir"
Dir1Slash == "https://dir-1/fhir/"
BadURL == "file:///etc/passwd"
QueryDirectory == "http://query/fhir"
RootC == "http://root-c/fhir"
Dir2 == "https://dir-2/fhir"
Dir2Slash == "https://dir-2/fhir/"
Dir2Slashes == "https://dir-2/fhir//"
NoHostURL == "http:///fhir"
RelativeURL == "not-a-valid-url"
NestedDir == "https://dir-1/fhir/Organization/p1"

urlParse(u) ==
    CASE u \in { RootA, RootB, RootC, QueryDirectory } -> [ scheme |-> "http", host |-> "h" ]
      [] u \in { Dir1, Dir1Slash, NestedDir }  -> [ scheme |-> "https", host |-> "dir-1" ]
      [] u \in { Dir2, Dir2Slash, Dir2Slashes } -> [ scheme |-> "https", host |-> "dir-2" ]
      [] u = BadURL                            -> [ scheme |-> "file", host |-> "" ]
      [] u = NoHostURL                         -> [ scheme |-> "http", host |-> "" ]
      [] OTHER                                 -> [ scheme |-> "", host |-> "" ]

\* a variant of TrimRightSlash that trims nothing
TrimNothing(u) == u

\* strings.TrimRight(u, "/"): every trailing slash is cut
TrimRightSlash(u) ==
    CASE u = Dir1Slash                  -> Dir1
      [] u \in { Dir2Slash, Dir2Slashes } -> Dir2
      [] OTHER                          -> u

\* BuildSourceURL fails unless the base is an absolute http(s) URL
validSourceBase(baseURL) ==
    /\ urlParse(baseURL).scheme \in { "http", "https" }
    /\ urlParse(baseURL).host # ""

-----------------------------------------------------------------------------
(* Transaction builder (updater.go) *)

\* a variant of hasURAIdentifier that finds no identifier
hasNoIdentifier(res) == FALSE

\* hasURAIdentifier: some identifier of the resource is in the URA naming system
hasURAIdentifier(res) == Len(res.ura) > 0

\* a variant of updateResourceMeta that leaves meta as pulled
keepResourceMeta(res, source) == res

\* updateResourceMeta
updateResourceMeta(res, source) ==
    [ res EXCEPT !.meta = [ source |-> source, versionId |-> "", lastUpdated |-> 0 ] ]

\* a variant of convertReference that leaves the source URL unescaped
convertReferenceUnescaped(ref, sourceBaseURL) ==
    IF Len(ref) = 2
    THEN << ref[1] \o "?_source=" \o BuildSourceURL(sourceBaseURL, ref) >>
    ELSE ref

\* the value convertReferencesRecursive gives one reference
convertReference(ref, sourceBaseURL) ==
    IF Len(ref) = 2
    THEN << ref[1] \o "?_source=" \o QueryEscape(BuildSourceURL(sourceBaseURL, ref)) >>
    ELSE ref

\* convertReferencesRecursive over the reference-bearing fields of a resource
convertReferencesRecursive(res, sourceBaseURL) ==
    [ res EXCEPT !.partOf   = convertReference(@, sourceBaseURL),
                 !.owner    = convertReference(@, sourceBaseURL),
                 !.endpoint = [ i \in DOMAIN @ |-> convertReference(@[i], sourceBaseURL) ] ]

\* the request URL of a conditional PUT or DELETE
conditionalURL(resourceType, sourceURL) == resourceType \o "?_source=" \o QueryEscape(sourceURL)

TxDelete(resourceType, sourceURL) ==
    [ method |-> "DELETE", url |-> conditionalURL(resourceType, sourceURL),
      hasResource |-> FALSE, resource |-> NoResource ]

TxPut(resourceType, sourceURL, res) ==
    [ method |-> "PUT", url |-> conditionalURL(resourceType, sourceURL),
      hasResource |-> TRUE, resource |-> res ]

\* a variant of doSync that forwards every validated resource of every source
doSyncEverything(isDiscoverableDirectory, res) == TRUE

\* doSync: resources are forwarded from non-discoverable directories only, except
\* mCSD-directory Endpoints
doSync(isDiscoverableDirectory, res) ==
    IF isDiscoverableDirectory
    THEN res.resourceType = "Endpoint" /\ res.payloadMcsd
    ELSE TRUE

\* buildUpdateTransaction: the transaction after the entry, and the error ("" = nil)
buildUpdateTransaction(tx, entry, allowedResourceTypes, tree, allHealthcareServices, isDiscoverableDirectory, sourceBaseURL) ==
    LET fail(msg) == [ tx |-> tx, err |-> msg ]
    IN
    IF entry.fullUrl = << >> THEN fail("missing 'fullUrl' field")
    ELSE IF ~entry.hasRequest THEN fail("missing 'request' field")
    ELSE IF entry.method = "DELETE"
    THEN IF Len(entry.url) < 2 THEN fail("invalid DELETE URL format")
         ELSE LET resourceType == entry.url[1]
                  resourceID   == entry.url[2]
              IN  IF resourceType \notin Range(allowedResourceTypes)
                  THEN fail("resource type not allowed")
                  ELSE IF ~validSourceBase(sourceBaseURL)
                  THEN fail("failed to build source URL for DELETE")
                  ELSE [ tx  |-> Append(tx, TxDelete(resourceType,
                                   BuildSourceURL(sourceBaseURL, << resourceType, resourceID >>))),
                         err |-> "" ]
    ELSE IF ~entry.hasResource THEN fail("missing 'resource' field for non-DELETE operation")
    ELSE IF entry.resource.resourceType = "" THEN fail("not a valid resourceType")
    ELSE LET resourceType == entry.resource.resourceType
             validation == ValidateUpdate(allowedResourceTypes, entry.resource, tree,
                                          allHealthcareServices)
             named == IF resourceType = "Organization" /\ ~isDiscoverableDirectory
                         /\ hasURAIdentifier(entry.resource)
                      THEN [ entry.resource EXCEPT !.name = "" ]
                      ELSE entry.resource
             sourceURL == BuildSourceURL(sourceBaseURL, << resourceType, named.id >>)
         IN  IF validation # "" THEN fail(validation)
             ELSE IF ~doSync(isDiscoverableDirectory, entry.resource) THEN [ tx |-> tx, err |-> "" ]
             ELSE IF named.id = "" THEN fail("resource missing ID field")
             ELSE IF ~validSourceBase(sourceBaseURL) THEN fail("failed to build source URL")
             ELSE [ tx  |-> Append(tx, TxPut(resourceType, sourceURL,
                              convertReferencesRecursive(
                                  [ updateResourceMeta(named, sourceURL) EXCEPT !.id = "" ],
                                  sourceBaseURL))),
                    err |-> "" ]

-----------------------------------------------------------------------------
(* Directory registry and reports (component.go) *)

\* makeDirectoryKey
makeDirectoryKey(fhirBaseURL, authoritativeUra) ==
    IF authoritativeUra = "" THEN fhirBaseURL ELSE fhirBaseURL \o "|" \o authoritativeUra

dirKey(dir) == makeDirectoryKey(dir.fhirBaseURL, dir.authoritativeUra)

\* a Go slice of strings: nil, or a list
NilList == [ isNil |-> TRUE, items |-> << >> ]

EmptyList == [ isNil |-> FALSE, items |-> << >> ]

AppendList(list, x) == [ isNil |-> FALSE, items |-> Append(list.items, x) ]

\* DirectoryUpdateReport{}
ZeroReport ==
    [ CountCreated |-> 0, CountUpdated |-> 0, CountDeleted |-> 0,
      Warnings |-> NilList, Errors |-> NilList ]

\* a variant of registerAdministrationDirectory that puts the new entry first
registerAtFront(dirs, exclude, fhirBaseURL, resourceTypes, discover, sourceURL, authoritativeUra) ==
    IF \E i \in DOMAIN dirs : /\ dirs[i].fhirBaseURL = fhirBaseURL
                              /\ dirs[i].authoritativeUra = authoritativeUra
    THEN [ dirs |-> dirs, err |-> "" ]
    ELSE [ dirs |-> << [ fhirBaseURL      |-> fhirBaseURL,
                         resourceTypes    |-> resourceTypes,
                         discover         |-> discover,
                         sourceURL        |-> sourceURL,
                         authoritativeUra |-> authoritativeUra ] >> \o dirs,
           err  |-> "" ]

\* a variant of registerAdministrationDirectory that also tells entries apart by sourceURL
registerPerSourceURL(dirs, exclude, fhirBaseURL, resourceTypes, discover, sourceURL, authoritativeUra) ==
    IF \E i \in DOMAIN exclude : TrimRightSlash(exclude[i]) = TrimRightSlash(fhirBaseURL)
    THEN [ dirs |-> dirs, err |-> "" ]
    ELSE IF \E i \in DOMAIN dirs : /\ dirs[i].fhirBaseURL = fhirBaseURL
                                   /\ dirs[i].authoritativeUra = authoritativeUra
                                   /\ dirs[i].sourceURL = sourceURL
    THEN [ dirs |-> dirs, err |-> "" ]
    ELSE [ dirs |-> Append(dirs, [ fhirBaseURL      |-> fhirBaseURL,
                                   resourceTypes    |-> resourceTypes,
                                   discover         |-> discover,
                                   sourceURL        |-> sourceURL,
                                   authoritativeUra |-> authoritativeUra ]),
           err  |-> "" ]

\* a variant of registerAdministrationDirectory without the check for an existing entry
registerAgain(dirs, exclude, fhirBaseURL, resourceTypes, discover, sourceURL, authoritativeUra) ==
    [ dirs |-> Append(dirs, [ fhirBaseURL      |-> fhirBaseURL,
                              resourceTypes    |-> resourceTypes,
                              discover         |-> discover,
                              sourceURL        |-> sourceURL,
                              authoritativeUra |-> authoritativeUra ]),
      err  |-> "" ]

\* a variant of registerAdministrationDirectory that looks at the exclusion list first
registerExclusionFirst(dirs, exclude, fhirBaseURL, resourceTypes, discover, sourceURL, authoritativeUra) ==
    LET parsed == urlParse(fhirBaseURL)
    IN  IF \E i \in DOMAIN exclude : TrimRightSlash(exclude[i]) = TrimRightSlash(fhirBaseURL)
        THEN [ dirs |-> dirs, err |-> "" ]
        ELSE IF (parsed.scheme # "https" /\ parsed.scheme # "http") \/ parsed.host = ""
        THEN [ dirs |-> dirs, err |-> "invalid FHIR base URL" ]
        ELSE IF \E i \in DOMAIN dirs : /\ dirs[i].fhirBaseURL = fhirBaseURL
                                       /\ dirs[i].authoritativeUra = authoritativeUra
        THEN [ dirs |-> dirs, err |-> "" ]
        ELSE [ dirs |-> Append(dirs, [ fhirBaseURL      |-> fhirBaseURL,
                                       resourceTypes    |-> resourceTypes,
                                       discover         |-> discover,
                                       sourceURL        |-> sourceURL,
                                       authoritativeUra |-> authoritativeUra ]),
               err  |-> "" ]

\* registerAdministrationDirectory: the registry after the call, and the error ("" = nil)
registerAdministrationDirectory(dirs, exclude, fhirBaseURL, resourceTypes, discover, sourceURL, authoritativeUra) ==
    LET parsed == urlParse(fhirBaseURL)
    IN  IF (parsed.scheme # "https" /\ parsed.scheme # "http") \/ parsed.host = ""
        THEN [ dirs |-> dirs, err |-> "invalid FHIR base URL" ]
        ELSE IF \E i \in DOMAIN exclude : TrimRightSlash(exclude[i]) = TrimRightSlash(fhirBaseURL)
        THEN [ dirs |-> dirs, err |-> "" ]
        ELSE IF \E i \in DOMAIN dirs : /\ dirs[i].fhirBaseURL = fhirBaseURL
                                       /\ dirs[i].authoritativeUra = authoritativeUra
        THEN [ dirs |-> dirs, err |-> "" ]
        ELSE [ dirs |-> Append(dirs, [ fhirBaseURL      |-> fhirBaseURL,
                                       resourceTypes    |-> resourceTypes,
                                       discover         |-> discover,
                                       sourceURL        |-> sourceURL,
                                       authoritativeUra |-> authoritativeUra ]),
               err  |-> "" ]

\* unregisterAdministrationDirectory
unregisterAdministrationDirectory(dirs, fullUrl) ==
    SelectSeq(dirs, LAMBDA dir : dir.sourceURL # fullUrl)

RECURSIVE processEndpointDeletes(_, _)
processEndpointDeletes(dirs, entries) ==
    IF entries = << >> THEN dirs
    ELSE LET entry == Head(entries)
         IN  IF /\ entry.hasRequest /\ entry.method = "DELETE" /\ entry.fullUrl # << >>
                /\ Len(entry.url) >= 2 /\ entry.url[1] = "Endpoint"
             THEN processEndpointDeletes(unregisterAdministrationDirectory(dirs, entry.fullUrl),
                                         Tail(entries))
             ELSE processEndpointDeletes(dirs, Tail(entries))

RECURSIVE discoveredEndpoints(_, _, _)
\* the endpoints map built for one parent organization: fullUrl -> Endpoint
discoveredEndpoints(entries, parentOrg, endpoints) ==
    IF entries = << >> THEN endpoints
    ELSE LET entry == Head(entries)
         IN  IF /\ entry.hasResource /\ entry.resource.id # ""
                /\ listsEndpoint(parentOrg, entry.resource.id)
                /\ entry.fullUrl # << >>
             THEN discoveredEndpoints(Tail(entries), parentOrg,
                      [ u \in DOMAIN endpoints \cup {entry.fullUrl} |->
                          IF u = entry.fullUrl THEN entry.resource ELSE endpoints[u] ])
             ELSE discoveredEndpoints(Tail(entries), parentOrg, endpoints)

\* the Register calls one parent organization causes, in every order Go may make them
registrationsOf(entries, parentOrg) ==
    IF Len(parentOrg.ura) = 0 \/ Len(parentOrg.endpoint) = 0 THEN { << >> }
    ELSE LET endpoints == discoveredEndpoints(entries, parentOrg, << >>)
         IN  SeqsOf({ [ fullUrl |-> u, address |-> endpoints[u].address,
                        authoritativeUra |-> parentOrg.ura[1] ] :
                      u \in { v \in DOMAIN endpoints : endpoints[v].payloadMcsd } })

RECURSIVE registrationOrders(_, _)
registrationOrders(entries, parents) ==
    IF parents = << >> THEN { << >> }
    ELSE { a \o b : a \in registrationsOf(entries, Head(parents)),
                    b \in registrationOrders(entries, Tail(parents)) }

RECURSIVE applyRegistrations(_, _, _, _, _)
applyRegistrations(calls, dirs, exclude, resourceTypes, report) ==
    IF calls = << >> THEN [ dirs |-> dirs, report |-> report ]
    ELSE LET call == Head(calls)
             r == registerAdministrationDirectory(dirs, exclude, call.address, resourceTypes,
                                                  FALSE, call.fullUrl, call.authoritativeUra)
         IN  applyRegistrations(Tail(calls), r.dirs, exclude, resourceTypes,
                 IF r.err # ""
                 THEN [ report EXCEPT !.Warnings =
                          AppendList(@, "failed to register discovered mCSD Directory") ]
                 ELSE report)

\* discoverAndRegisterEndpoints: every outcome the map iteration orders allow
discoverAndRegisterEndpoints(dirs, exclude, resourceTypes, entries, tree, report) ==
    { applyRegistrations(calls, dirs, exclude, resourceTypes, report) :
        calls \in UNION { registrationOrders(entries, parents) :
                          parents \in SeqsOf({ t.root : t \in tree }) } }

RECURSIVE buildLoopStoppingAtError(_, _, _, _, _, _, _, _)
\* a variant of buildLoop that leaves the loop at the first entry that fails
buildLoopStoppingAtError(entries, tx, report, allowedResourceTypes, tree, allHealthcareServices, allowDiscovery, fhirBaseURL) ==
    IF entries = << >> THEN [ tx |-> tx, report |-> report ]
    ELSE LET entry == Head(entries)
         IN  IF ~entry.hasRequest
             THEN [ tx |-> tx,
                    report |-> [ report EXCEPT !.Warnings = AppendList(@, "Skipping entry with no request") ] ]
             ELSE LET r == buildUpdateTransaction(tx, entry, allowedResourceTypes, tree,
                                                  allHealthcareServices, allowDiscovery, fhirBaseURL)
                  IN  IF r.err # ""
                      THEN [ tx |-> tx,
                             report |-> [ report EXCEPT !.Warnings = AppendList(@, r.err) ] ]
                      ELSE buildLoopStoppingAtError(Tail(entries), r.tx, report, allowedResourceTypes,
                               tree, allHealthcareServices, allowDiscovery, fhirBaseURL)

RECURSIVE buildLoop(_, _, _, _, _, _, _, _)
\* the loop of updateFromDirectory over the deduplicated entries
buildLoop(entries, tx, report, allowedResourceTypes, tree, allHealthcareServices, allowDiscovery, fhirBaseURL) ==
    IF entries = << >> THEN [ tx |-> tx, report |-> report ]
    ELSE LET entry == Head(entries)
         IN  IF ~entry.hasRequest
             THEN buildLoop(Tail(entries), tx,
                      [ report EXCEPT !.Warnings = AppendList(@, "Skipping entry with no request") ],
                      allowedResourceTypes, tree, allHealthcareServices, allowDiscovery, fhirBaseURL)
             ELSE LET r == buildUpdateTransaction(tx, entry, allowedResourceTypes, tree,
                                                  allHealthcareServices, allowDiscovery, fhirBaseURL)
                  IN  buildLoop(Tail(entries), r.tx,
                          IF r.err # ""
                          THEN [ report EXCEPT !.Warnings = AppendList(@, r.err) ]
                          ELSE report,
                          allowedResourceTypes, tree, allHealthcareServices, allowDiscovery, fhirBaseURL)

RECURSIVE countAllAsCreated(_, _)
\* a variant of countResponses that counts every entry with a response part as created
countAllAsCreated(statuses, report) ==
    IF statuses = << >> THEN report
    ELSE countAllAsCreated(Tail(statuses),
             IF Head(statuses) = ""
             THEN [ report EXCEPT !.Warnings = AppendList(@, "Skipping entry with no response") ]
             ELSE [ report EXCEPT !.CountCreated = @ + 1 ])

RECURSIVE countResponses(_, _)
\* the loop of updateFromDirectory over the response entries ("" = no response part)
countResponses(statuses, report) ==
    IF statuses = << >> THEN report
    ELSE LET status == Head(statuses)
         IN  countResponses(Tail(statuses),
               CASE status = ""    -> [ report EXCEPT !.Warnings = AppendList(@, "Skipping entry with no response") ]
                 [] status = "201" -> [ report EXCEPT !.CountCreated = @ + 1 ]
                 [] status = "200" -> [ report EXCEPT !.CountUpdated = @ + 1 ]
                 [] status = "204" -> [ report EXCEPT !.CountDeleted = @ + 1 ]
                 [] OTHER          -> [ report EXCEPT !.Warnings = AppendList(@, "Unknown HTTP response status") ])

-----------------------------------------------------------------------------
(* The remote servers: what a request may return *)

U1 == << RootA, "Endpoint", "e1" >>
EmptyFullUrl == << "" >>

\* root directory content
rootOrg1 == [ Resource("Organization", "o1", 1) EXCEPT
                !.ura = << "1" >>, !.endpoint = << << "Endpoint", "e1" >> >>, !.name = "Org 1" ]
rootMultiUra == [ Resource("Organization", "o9", 1) EXCEPT !.ura = << "1", "2" >> ]
rootEp1 == [ Resource("Endpoint", "e1", 1) EXCEPT !.payloadMcsd = TRUE, !.address = Dir1 ]
rootEpPlain == [ Resource("Endpoint", "e1", 2) EXCEPT !.address = Dir1 ]

\* provider directory content
provOrg == [ Resource("Organization", "p1", 1) EXCEPT
               !.ura = << "1" >>, !.endpoint = << << "Endpoint", "e5" >> >>, !.name = "Provider" ]
provChild == [ Resource("Organization", "p2", 1) EXCEPT !.partOf = << "Organization", "p1" >> ]
provOrphan == Resource("Organization", "p3", 1)
provEp == [ Resource("Endpoint", "e5", 1) EXCEPT !.address = "https://service" ]

Put(base, res) == PutEntry(<< base, res.resourceType, res.id >>, "PUT", res)

\* a root directory in which two organizations with different URAs list the same
\* mCSD directory Endpoint, and one of them a second Endpoint with the same address
U7 == << RootC, "Endpoint", "e7" >>
U8 == << RootC, "Endpoint", "e8" >>
rootOrgA == [ Resource("Organization", "oa", 1) EXCEPT
                !.ura = << "111" >>, !.name = "Org A",
                !.endpoint = << << "Endpoint", "e7" >>, << "Endpoint", "e8" >> >> ]
rootOrgB == [ Resource("Organization", "ob", 1) EXCEPT
                !.ura = << "222" >>, !.name = "Org B", !.endpoint = << << "Endpoint", "e7" >> >> ]
rootEp7 == [ Resource("Endpoint", "e7", 1) EXCEPT !.payloadMcsd = TRUE, !.address = Dir2 ]
rootEp8 == [ Resource("Endpoint", "e8", 1) EXCEPT !.payloadMcsd = TRUE, !.address = Dir2 ]
rootEp8Bad == [ rootEp8 EXCEPT !.address = BadURL ]
rootEp7Relative == [ rootEp7 EXCEPT !.address = RelativeURL ]

\* the directory both organizations share
sharedOrgA == [ Resource("Organization", "sa", 1) EXCEPT !.ura = << "111" >>, !.name = "Org A" ]
sharedOrgB == [ Resource("Organization", "sb", 1) EXCEPT !.ura = << "222" >>, !.name = "Org B" ]

\* the _history feeds a directory may return for one resource type
HistoryFeeds(dir, resourceType) ==
    CASE dir.fhirBaseURL = RootA /\ resourceType = "Organization" ->
            { << >>, << Put(RootA, rootOrg1) >> }
      [] dir.fhirBaseURL = RootA /\ resourceType = "Endpoint" ->
            { << >>, << Put(RootA, rootEp1) >>,
              << DeleteEntry(EmptyFullUrl, << "Endpoint", "e1" >>) >> }
      [] dir.fhirBaseURL = RootB /\ resourceType = "Endpoint" ->
            { << >>, << DeleteEntry(U1, << "Endpoint", "e1" >>) >> }
      [] dir.fhirBaseURL = Dir1 /\ resourceType = "Organization" ->
            { << >>, << Put(Dir1, provOrg) >>, << Put(Dir1, provOrphan) >> }
      [] dir.fhirBaseURL = Dir1 /\ resourceType = "Endpoint" ->
            { << >>, << Put(Dir1, provEp) >> }
      [] dir.fhirBaseURL = RootC /\ resourceType = "Endpoint" ->
            { << Put(RootC, rootEp7) >>,
              << Put(RootC, rootEp7), Put(RootC, rootEp8) >>,
              << DeleteEntry(U7, << "Endpoint", "e7" >>), Put(RootC, rootEp7) >>,
              << DeleteEntry(U7, << "Endpoint", "e7" >>) >>,
              << PutEntry(EmptyFullUrl, "PUT", rootEp7) >> }
      [] dir.fhirBaseURL = Dir2 /\ resourceType = "Organization" ->
            { << Put(Dir2, sharedOrgA), Put(Dir2, sharedOrgB) >> }
      [] OTHER -> { << >> }

\* a current-state search returns resources without request parts, and no deletions
SnapshotFeeds(dir, resourceType) ==
    { [ i \in DOMAIN feed |-> SearchEntry(feed[i].fullUrl, feed[i].resource) ] :
        feed \in { f \in HistoryFeeds(dir, resourceType) : \A i \in DOMAIN f : f[i].hasResource } }

\* the Organization search that feeds the organization tree
OrganizationSearches(dir) ==
    CASE dir.fhirBaseURL = RootA ->
            { << SearchEntry(<< RootA, "Organization", "o1" >>, rootOrg1) >>,
              << SearchEntry(<< RootA, "Organization", "o9" >>, rootMultiUra) >> }
      [] dir.fhirBaseURL = Dir1 ->
            { << SearchEntry(<< Dir1, "Organization", "p1" >>, provOrg),
                 SearchEntry(<< Dir1, "Organization", "p2" >>, provChild) >> }
      [] dir.fhirBaseURL = RootC ->
            { << SearchEntry(<< RootC, "Organization", "oa" >>, rootOrgA),
                 SearchEntry(<< RootC, "Organization", "ob" >>, rootOrgB) >> }
      [] dir.fhirBaseURL = Dir2 ->
            { << SearchEntry(<< Dir2, "Organization", "sa" >>, sharedOrgA),
                 SearchEntry(<< Dir2, "Organization", "sb" >>, sharedOrgB) >> }
      [] OTHER -> { << >> }

\* Bundle.meta.lastUpdated of a search result ("" = not supplied)
BundleStamps == { "", "T2" }

\* the response statuses of the query directory, by their three-character prefix
\* ("" = an entry without response part)
TxStatuses == { "201", "204", "" }

\* the response bundles the query directory may return for a transaction
TxResponses(tx) == { [ i \in DOMAIN tx |-> st ] : st \in TxStatuses }

\* DirectoryResourceTypes as configured
ConfiguredResourceTypes == << "Organization", "Endpoint" >>

-----------------------------------------------------------------------------
(* The engine: New, update, updateFromDirectory *)

Callers == { 1, 2 }

IdleRun ==
    [ i |-> 0, result |-> << >>, visited |-> << >>, appended |-> {}, removed |-> FALSE,
      cancelled |-> FALSE ]

NoDirectory ==
    [ fhirBaseURL |-> "", resourceTypes |-> << >>, discover |-> FALSE,
      sourceURL |-> << >>, authoritativeUra |-> "" ]

IdleSync ==
    [ dir |-> NoDirectory, lastUpdate |-> "", hasLastUpdate |-> FALSE, since |-> "",
      useSnapshotMode |-> FALSE, useHistoryMode |-> FALSE, k |-> 0, entries |-> << >>,
      firstSearchSet |-> "", requests |-> << >>, tx |-> << >>, report |-> ZeroReport,
      txResult |-> << >> ]

RECURSIVE registerRoots(_, _, _)
\* the loop of New over config.AdministrationDirectories
registerRoots(roots, exclude, dirs) ==
    IF roots = << >> THEN dirs
    ELSE registerRoots(Tail(roots), exclude,
             registerAdministrationDirectory(dirs, exclude, Head(roots),
                 rootDirectoryResourceTypes, TRUE, EmptyFullUrl, "").dirs)

\* the configurations explored: roots in the order New ranges over them
Configurations ==
    [ AdministrationDirectories : { << RootA >>, << RootA, RootB >> },
      ExcludeAdminDirectories   : { << >> },
      DirectoryResourceTypes    : { ConfiguredResourceTypes },
      StateFile                 : { TRUE },
      SnapshotModeSupport       : BOOLEAN ]

\* the state New returns
Init ==
    /\ config \in Configurations
    /\ administrationDirectories =
           registerRoots(config.AdministrationDirectories, config.ExcludeAdminDirectories, << >>)
    /\ directoryResourceTypes = config.DirectoryResourceTypes
    /\ stateFile \in { << >>, [ k \in { RootA } |-> "T1" ] }
    /\ lastUpdateTimes = stateFile
    /\ updateMux = 0
    /\ pc = [ c \in Callers |-> "idle" ]
    /\ run = [ c \in Callers |-> IdleRun ]
    /\ sync = [ c \in Callers |-> IdleSync ]
    /\ runs = 0
    /\ prevFirst = << >>
    /\ input = << >>
    /\ output = << >>

\* saveSyncState
saveSyncState(times) == IF config.StateFile THEN times ELSE stateFile

\* a function without the key
Without(f, key) == [ k \in DOMAIN f \ {key} |-> f[k] ]

With(f, key, value) == [ k \in DOMAIN f \cup {key} |-> IF k = key THEN value ELSE f[k] ]

\* an HTTP caller invokes update(): POST /mcsd/update
CallUpdate(c) ==
    /\ pc[c] = "idle"
    /\ runs < MaxRuns
    /\ runs' = runs + 1
    /\ pc' = [ pc EXCEPT ![c] = "waiting" ]
    /\ UNCHANGED << config, administrationDirectories, directoryResourceTypes, lastUpdateTimes,
                    stateFile, updateMux, run, sync, prevFirst, input, output >>

\* a variant of Lock that does not wait for the mutex
LockWithoutWaiting(c) ==
    /\ pc[c] = "waiting"
    /\ updateMux' = c
    /\ pc' = [ pc EXCEPT ![c] = "loop" ]
    /\ run' = [ run EXCEPT ![c] = [ IdleRun EXCEPT !.i = 1 ] ]
    /\ UNCHANGED << config, administrationDirectories, directoryResourceTypes, lastUpdateTimes,
                    stateFile, sync, runs, prevFirst, input, output >>

\* c.updateMux.Lock()
Lock(c) ==
    /\ pc[c] = "waiting"
    /\ updateMux = 0
    /\ updateMux' = c
    /\ pc' = [ pc EXCEPT ![c] = "loop" ]
    /\ run' = [ run EXCEPT ![c] = [ IdleRun EXCEPT !.i = 1 ] ]
    /\ UNCHANGED << config, administrationDirectories, directoryResourceTypes, lastUpdateTimes,
                    stateFile, sync, runs, prevFirst, input, output >>

\* the loop of update() has passed the last registry entry: return result, nil; Unlock
Return(c) ==
    /\ pc[c] = "loop"
    /\ run[c].i > Len(administrationDirectories)
    /\ updateMux' = 0
    /\ pc' = [ pc EXCEPT ![c] = "idle" ]
    /\ run' = [ run EXCEPT ![c] = IdleRun ]
    /\ UNCHANGED << config, administrationDirectories, directoryResourceTypes, lastUpdateTimes,
                    stateFile, sync, runs, prevFirst, input, output >>

\* the context of the caller's request has not been cancelled: requests can succeed
Alive(c) == ~run[c].cancelled

\* the caller of POST /mcsd/update goes away during the run: r.Context() is cancelled
Cancel(c) ==
    /\ pc[c] \notin { "idle", "waiting", "away" }
    /\ Alive(c)
    /\ run' = [ run EXCEPT ![c] = [ @ EXCEPT !.cancelled = TRUE ] ]
    /\ UNCHANGED << config, administrationDirectories, directoryResourceTypes, lastUpdateTimes,
                    stateFile, updateMux, pc, sync, runs, prevFirst, input, output >>

\* a variant of afterQuery that ends the query loop after the first resource type
afterFirstQuery(snapshot, k, resourceTypes) ==
    IF k > Len(resourceTypes) \/ k > 1 THEN "pulled"
    ELSE IF snapshot THEN "snapshot" ELSE "history"

\* where updateFromDirectory continues after its mode is known or a query loop has advanced
afterQuery(snapshot, k, resourceTypes) ==
    IF k > Len(resourceTypes) THEN "pulled" ELSE IF snapshot THEN "snapshot" ELSE "history"

\* a variant of chooseMode that searches the current state whenever Snapshot Mode is supported
chooseSnapshotWhenSupported(hasLastUpdate, snapshotModeSupport) ==
    [ useHistoryMode |-> ~snapshotModeSupport, useSnapshotMode |-> snapshotModeSupport ]

\* useHistoryMode and useSnapshotMode as updateFromDirectory sets them before its first query
chooseMode(hasLastUpdate, snapshotModeSupport) ==
    IF hasLastUpdate THEN [ useHistoryMode |-> TRUE, useSnapshotMode |-> FALSE ]
    ELSE [ useHistoryMode |-> ~snapshotModeSupport, useSnapshotMode |-> snapshotModeSupport ]

\* update() takes the next registry entry; updateFromDirectory reads the cursor and picks the mode
StartSync(c) ==
    /\ pc[c] = "loop"
    /\ run[c].i <= Len(administrationDirectories)
    /\ LET adminDirectory == administrationDirectories[run[c].i]
           directoryKey == dirKey(adminDirectory)
           hasLastUpdate == directoryKey \in DOMAIN lastUpdateTimes
           lastUpdate == IF hasLastUpdate THEN lastUpdateTimes[directoryKey] ELSE ""
           mode == chooseMode(hasLastUpdate, config.SnapshotModeSupport)
           useHistoryMode == mode.useHistoryMode
           useSnapshotMode == mode.useSnapshotMode
       IN  /\ sync' = [ sync EXCEPT ![c] =
                 [ IdleSync EXCEPT !.dir = adminDirectory, !.lastUpdate = lastUpdate,
                                   !.hasLastUpdate = hasLastUpdate,
                                   !.since = IF hasLastUpdate THEN lastUpdate ELSE "",
                                   !.useSnapshotMode = useSnapshotMode,
                                   !.useHistoryMode = useHistoryMode, !.k = 1 ] ]
           /\ pc' = [ pc EXCEPT ![c] = afterQuery(useSnapshotMode, 1, adminDirectory.resourceTypes) ]
    /\ UNCHANGED << config, administrationDirectories, directoryResourceTypes, lastUpdateTimes,
                    stateFile, updateMux, run, runs, prevFirst, input, output >>

\* a variant of finishSync that ends the run at the first failed directory
stopAtError(c, dirs, report, err, appended, removed) ==
    /\ administrationDirectories' = dirs
    /\ run' = [ run EXCEPT ![c] =
          [ @ EXCEPT !.i = IF err # "" THEN Len(dirs) + 1 ELSE @ + 1,
                     !.result = With(@, dirKey(sync[c].dir),
                                     IF err # "" THEN [ report EXCEPT !.Errors = AppendList(@, err) ]
                                     ELSE report),
                     !.visited = Append(@, dirKey(sync[c].dir)) ] ]
    /\ UNCHANGED prevFirst
    /\ sync' = [ sync EXCEPT ![c] = IdleSync ]
    /\ pc' = [ pc EXCEPT ![c] = "loop" ]

\* the tail of the loop body of update(): the report block of the directory just synced
finishSync(c, dirs, report, err, appended, removed) ==
    LET directoryKey == dirKey(sync[c].dir)
        withErr == IF err # "" THEN [ report EXCEPT !.Errors = AppendList(@, err) ] ELSE report
        block == [ withErr EXCEPT !.Warnings = IF @.isNil THEN EmptyList ELSE @,
                                  !.Errors   = IF @.isNil THEN EmptyList ELSE @ ]
    IN  /\ administrationDirectories' = dirs
        /\ run' = [ run EXCEPT ![c] =
              [ i        |-> @.i + 1,
                result   |-> With(@.result, directoryKey, block),
                visited  |-> Append(@.visited, directoryKey),
                appended |-> @.appended \cup appended,
                removed  |-> @.removed \/ removed,
                cancelled |-> @.cancelled ] ]
        /\ prevFirst' = IF err = "" /\ sync[c].firstSearchSet # ""
                        THEN With(prevFirst, directoryKey, sync[c].firstSearchSet)
                        ELSE Without(prevFirst, directoryKey)
        /\ sync' = [ sync EXCEPT ![c] = IdleSync ]
        /\ pc' = [ pc EXCEPT ![c] = "loop" ]

\* a variant of fallbackToSnapshot that keeps the entries pulled so far
fallbackKeepingEntries(s, request) ==
    [ s EXCEPT !.useSnapshotMode = TRUE, !.since = "",
               !.requests = Append(@, request), !.k = 1 ]

\* 410 Gone with Snapshot Mode supported: _since and the entries are cleared
fallbackToSnapshot(s, request) ==
    [ s EXCEPT !.useSnapshotMode = TRUE, !.since = "", !.entries = << >>,
               !.requests = Append(@, request), !.k = 1 ]

\* one iteration of the _history loop: c.queryHistory for the k-th resource type
QueryHistory(c) ==
    /\ pc[c] = "history"
    /\ LET s == sync[c]
           resourceType == s.dir.resourceTypes[s.k]
           request == [ history |-> TRUE, resourceType |-> resourceType, since |-> s.since ]
       IN  \/ \E feed \in HistoryFeeds(s.dir, resourceType), stamp \in BundleStamps :
                /\ Alive(c)
                /\ sync' = [ sync EXCEPT ![c] =
                      [ s EXCEPT !.entries = @ \o feed,
                                 !.firstSearchSet = IF s.k = 1 THEN stamp ELSE @,
                                 !.requests = Append(@, request),
                                 !.k = @ + 1 ] ]
                /\ pc' = [ pc EXCEPT ![c] = afterQuery(FALSE, s.k + 1, s.dir.resourceTypes) ]
                /\ UNCHANGED << administrationDirectories, run, prevFirst >>
           \/ \* 410 Gone and Snapshot Mode supported: fall back
              /\ Alive(c)
              /\ config.SnapshotModeSupport
              /\ sync' = [ sync EXCEPT ![c] = fallbackToSnapshot(s, request) ]
              /\ pc' = [ pc EXCEPT ![c] = "snapshot" ]
              /\ UNCHANGED << administrationDirectories, run, prevFirst >>
           \/ \* 410 Gone without Snapshot Mode
              /\ Alive(c)
              /\ ~config.SnapshotModeSupport
              /\ finishSync(c, administrationDirectories, ZeroReport,
                            "410 Gone: history too old and Snapshot Mode is disabled", {}, FALSE)
           \/ \* any other failure of the request
              finishSync(c, administrationDirectories, ZeroReport,
                         "failed to query history", {}, FALSE)
    /\ UNCHANGED << config, directoryResourceTypes, lastUpdateTimes, stateFile, updateMux,
                    runs, input, output >>

\* the request part updateFromDirectory adds to a search result
withSnapshotRequest(entry, resourceType) ==
    IF entry.hasRequest THEN entry
    ELSE [ entry EXCEPT !.hasRequest = TRUE, !.method = "PUT",
                        !.url = << resourceType, ExtractResourceInfo(entry.resource).ID >> ]

\* one iteration of the snapshot loop: c.query for the k-th resource type
QuerySnapshot(c) ==
    /\ pc[c] = "snapshot"
    /\ LET s == sync[c]
           resourceType == s.dir.resourceTypes[s.k]
           request == [ history |-> FALSE, resourceType |-> resourceType, since |-> s.since ]
       IN  \/ \E feed \in SnapshotFeeds(s.dir, resourceType), stamp \in BundleStamps :
                /\ Alive(c)
                /\ sync' = [ sync EXCEPT ![c] =
                      [ s EXCEPT !.entries = @ \o [ j \in DOMAIN feed |->
                                                      withSnapshotRequest(feed[j], resourceType) ],
                                 !.firstSearchSet = IF s.k = 1 THEN stamp ELSE @,
                                 !.requests = Append(@, request),
                                 !.k = @ + 1 ] ]
                /\ pc' = [ pc EXCEPT ![c] = afterQuery(TRUE, s.k + 1, s.dir.resourceTypes) ]
                /\ UNCHANGED << administrationDirectories, run, prevFirst >>
           \/ finishSync(c, administrationDirectories, ZeroReport, "failed to query", {}, FALSE)
    /\ UNCHANGED << config, directoryResourceTypes, lastUpdateTimes, stateFile, updateMux,
                    runs, input, output >>

\* the entries updateFromDirectory hands to the validator as allHealthcareServices
healthcareServicesOf(entries) == SelectSeq(entries, LAMBDA entry : entry.hasResource)

\* a variant of afterSnapshot that stores a cursor as soon as the pull is complete
cursorAfterPull(times, useSnapshotMode, directoryKey) ==
    With(times, directoryKey, LocalFallback)

\* the cursors after the snapshot loop: delete(c.lastUpdateTimes, directoryKey)
afterSnapshot(times, useSnapshotMode, directoryKey) ==
    IF useSnapshotMode THEN Without(times, directoryKey) ELSE times

\* the keys of the registry entries
keysOf(dirs) == { dirKey(dirs[i]) : i \in DOMAIN dirs }

\* updateFromDirectory from the deduplication to the empty-transaction return
BuildTransaction(c) ==
    /\ pc[c] = "pulled"
    /\ LET s == sync[c]
           directoryKey == dirKey(s.dir)
           allHealthcareServices == healthcareServicesOf(s.entries)
       IN  /\ lastUpdateTimes' = afterSnapshot(lastUpdateTimes, s.useSnapshotMode, directoryKey)
           /\ \E deduplicatedEntries \in deduplicateHistoryEntries(s.entries) :
                LET dirs1 == IF s.dir.discover
                             THEN processEndpointDeletes(administrationDirectories, deduplicatedEntries)
                             ELSE administrationDirectories
                    removed == dirs1 # administrationDirectories
                IN  \/ finishSync(c, dirs1, ZeroReport,
                                  "failed to build parent organization map", {}, removed)
                    \/ \E orgEntries \in { o \in OrganizationSearches(s.dir) : Alive(c) } :
                         LET parentOrganizationsMap ==
                                 filterByAuthoritativeUra(createOrganizationTree(orgEntries),
                                                          s.dir.authoritativeUra)
                             built == buildLoop(deduplicatedEntries, << >>, ZeroReport,
                                                s.dir.resourceTypes, parentOrganizationsMap,
                                                allHealthcareServices, s.dir.discover,
                                                s.dir.fhirBaseURL)
                         IN  IF ValidateParentOrganizations(parentOrganizationsMap) # ""
                             THEN finishSync(c, dirs1, ZeroReport,
                                             "parent organization validation failed", {}, removed)
                             ELSE \E d \in IF s.dir.discover
                                           THEN discoverAndRegisterEndpoints(dirs1,
                                                    config.ExcludeAdminDirectories,
                                                    directoryResourceTypes, s.entries,
                                                    parentOrganizationsMap, built.report)
                                           ELSE { [ dirs |-> dirs1, report |-> built.report ] } :
                                    LET appended == keysOf(d.dirs) \ keysOf(dirs1)
                                    IN  IF Len(built.tx) = 0
                                        THEN finishSync(c, d.dirs, d.report, "", appended, removed)
                                        ELSE /\ administrationDirectories' = d.dirs
                                             /\ sync' = [ sync EXCEPT ![c] =
                                                   [ s EXCEPT !.tx = built.tx, !.report = d.report ] ]
                                             /\ run' = [ run EXCEPT ![c] =
                                                   [ @ EXCEPT !.appended = @ \cup appended,
                                                              !.removed = @ \/ removed ] ]
                                             /\ pc' = [ pc EXCEPT ![c] = "submitting" ]
                                             /\ UNCHANGED prevFirst
    /\ UNCHANGED << config, directoryResourceTypes, stateFile, updateMux, runs, input, output >>

\* queryDirectoryFHIRClient.CreateWithContext(ctx, tx, &txResult, AtPath("/"))
SubmitTransaction(c) ==
    /\ pc[c] = "submitting"
    /\ \/ finishSync(c, administrationDirectories, ZeroReport,
                     "failed to apply mCSD update to query directory", {}, FALSE)
       \/ /\ Alive(c)
          /\ \E txResult \in TxResponses(sync[c].tx) :
               sync' = [ sync EXCEPT ![c] = [ @ EXCEPT !.txResult = txResult ] ]
          /\ pc' = [ pc EXCEPT ![c] = "accepted" ]
          /\ UNCHANGED << administrationDirectories, run, prevFirst >>
    /\ UNCHANGED << config, directoryResourceTypes, lastUpdateTimes, stateFile, updateMux,
                    runs, input, output >>

\* nextSyncTime: the first bundle's meta.lastUpdated, else local time minus the buffer
nextSyncTime(firstSearchSet) == IF firstSearchSet # "" THEN firstSearchSet ELSE LocalFallback

\* the response entries are counted, the cursor is set and the sync state saved
ProcessResult(c) ==
    /\ pc[c] = "accepted"
    /\ LET s == sync[c]
       IN  /\ lastUpdateTimes' = With(lastUpdateTimes, dirKey(s.dir), nextSyncTime(s.firstSearchSet))
           /\ stateFile' = saveSyncState(lastUpdateTimes')
           /\ finishSync(c, administrationDirectories, countResponses(s.txResult, s.report),
                         "", {}, FALSE)
    /\ UNCHANGED << config, directoryResourceTypes, updateMux, runs, input, output >>

Next ==
    \E c \in Callers :
        \/ CallUpdate(c)
        \/ Lock(c)
        \/ StartSync(c)
        \/ QueryHistory(c)
        \/ QuerySnapshot(c)
        \/ BuildTransaction(c)
        \/ SubmitTransaction(c)
        \/ ProcessResult(c)
        \/ Return(c)
        \/ Cancel(c)

Spec == Init /\ [][Next]_vars

\* configurations with one root, an exclusion list and DirectoryResourceTypes left empty;
\* with snapshot mode on, the discovered directory is excluded or has nothing to pull
DiscoveryConfigurations ==
    { k \in [ AdministrationDirectories : { << RootC >> },
              ExcludeAdminDirectories   : { << >>, << Dir2Slash, BadURL >> },
              DirectoryResourceTypes    : { << "Organization" >>, << >> },
              StateFile                 : { TRUE },
              SnapshotModeSupport       : BOOLEAN ] :
          k.SnapshotModeSupport =>
              ( k.ExcludeAdminDirectories # << >> \/ k.DirectoryResourceTypes = << >> ) }

\* the state New returns for these configurations; one client makes the requests,
\* the other is away and never calls
InitDiscovery ==
    /\ config \in DiscoveryConfigurations
    /\ administrationDirectories =
           registerRoots(config.AdministrationDirectories, config.ExcludeAdminDirectories, << >>)
    /\ directoryResourceTypes = config.DirectoryResourceTypes
    /\ stateFile = << >>
    /\ lastUpdateTimes = stateFile
    /\ updateMux = 0
    /\ pc = [ c \in Callers |-> IF c = 1 THEN "idle" ELSE "away" ]
    /\ run = [ c \in Callers |-> IdleRun ]
    /\ sync = [ c \in Callers |-> IdleSync ]
    /\ runs = 0
    /\ prevFirst = << >>
    /\ input = << >>
    /\ output = << >>

SpecDiscovery == InitDiscovery /\ [][Next]_vars

-----------------------------------------------------------------------------
(* Properties of the engine *)

\* the caller is between Lock and Unlock
InRun(c) == pc[c] \notin { "idle", "waiting", "away" }

\* the positions inside updateFromDirectory
SyncSteps == { "history", "snapshot", "pulled", "submitting", "accepted" }

\* the cursor entry of a key: presence and value
CursorEntry(times, key) ==
    IF key \in DOMAIN times THEN [ present |-> TRUE, value |-> times[key] ]
    ELSE [ present |-> FALSE, value |-> "" ]

\* the step takes caller c out of updateFromDirectory
LeavesSync(c) == pc[c] \in SyncSteps /\ pc'[c] \notin SyncSteps

\* the step ends the sync of caller c with a whole-source error
FailsSync(c) ==
    /\ LeavesSync(c)
    /\ dirKey(sync[c].dir) \in DOMAIN run'[c].result
    /\ run'[c].result[dirKey(sync[c].dir)].Errors.items # << >>

\* C1: no two executions of update() overlap: a caller inside update() holds the mutex
\* and no other caller is inside update() at the same moment.
C1_RunsDoNotOverlap ==
    \A c \in Callers :
        InRun(c) => /\ updateMux = c
                    /\ \A d \in Callers \ {c} : ~InRun(d)

\* a run has had its transaction accepted while the other caller waits for the mutex
C1_SecondCallerBlocked ==
    \E c, d \in Callers : c # d /\ pc[c] = "accepted" /\ pc[d] = "waiting"

\* C2: the cursor of a key receives a new value only in a step of a sync of that key
\* whose transaction the query directory has accepted.
C2_CursorSetOnlyAfterAccept ==
    [][ \A k \in DOMAIN lastUpdateTimes' :
           (k \notin DOMAIN lastUpdateTimes \/ lastUpdateTimes'[k] # lastUpdateTimes[k])
           => \E c \in Callers : /\ pc[c] = "accepted"
                                 /\ dirKey(sync[c].dir) = k
                                 /\ sync[c].tx # << >>
                                 /\ Len(sync[c].txResult) = Len(sync[c].tx) ]_vars

\* a sync has just stored a cursor taken from the first bundle
C2_CursorAdvanced ==
    \E c \in Callers :
        /\ pc[c] = "loop"
        /\ run[c].visited # << >>
        /\ LET k == Last(run[c].visited)
           IN  /\ CursorEntry(lastUpdateTimes, k) = [ present |-> TRUE, value |-> "T2" ]
               /\ run[c].result[k].Errors.items = << >>
               /\ run[c].result[k].CountCreated > 0

\* C3: a sync that ends with a whole-source error leaves the cursor entry of its
\* directory as it was when the sync began (same presence, same value).
C3_ErrorKeepsCursor ==
    [][ \A c \in Callers :
           FailsSync(c) =>
               CursorEntry(lastUpdateTimes', dirKey(sync[c].dir))
                   = [ present |-> sync[c].hasLastUpdate, value |-> sync[c].lastUpdate ] ]_vars

\* C4: once a sync of a directory has completed without error with a first bundle
\* stamped T, the next sync of that directory runs in delta mode with _since = T on
\* every _history request.
C4_NextSyncSendsSince ==
    \A c \in Callers :
        (pc[c] \in SyncSteps /\ dirKey(sync[c].dir) \in DOMAIN prevFirst) =>
            LET T == prevFirst[dirKey(sync[c].dir)]
            IN  /\ sync[c].hasLastUpdate
                /\ sync[c].useHistoryMode
                /\ sync[c].lastUpdate = T
                /\ \A j \in DOMAIN sync[c].requests :
                       sync[c].requests[j].history => sync[c].requests[j].since = T

\* the keys of the registry in registry order
registryKeys == [ j \in DOMAIN administrationDirectories |-> dirKey(administrationDirectories[j]) ]

\* update() is about to return
AboutToReturn(c) == pc[c] = "loop" /\ run[c].i > Len(administrationDirectories)

C6_ErrorDoesNotStopRun ==
    [][ \A c \in Callers :
          /\ LeavesSync(c) =>
               LET key == dirKey(sync[c].dir)
               IN  /\ pc'[c] = "loop"
                   /\ run'[c].i = run[c].i + 1
                   /\ key \in DOMAIN run'[c].result
                   /\ \A k \in DOMAIN run[c].result \ {key} :
                          k \in DOMAIN run'[c].result /\ run'[c].result[k] = run[c].result[k]
                   /\ ~run'[c].result[key].Warnings.isNil
                   /\ ~run'[c].result[key].Errors.isNil
                   /\ (pc[c] \in { "history", "snapshot", "submitting" }) =>
                          run'[c].result[key].Errors.items # << >>
                   /\ run'[c].result[key].Errors.items # << >> =>
                          /\ run'[c].result[key].CountCreated = 0
                          /\ run'[c].result[key].CountUpdated = 0
                          /\ run'[c].result[key].CountDeleted = 0
                          /\ Len(run'[c].result[key].Errors.items) = 1
          /\ (InRun(c) /\ ~InRun(c)') =>
               /\ pc[c] = "loop"
               /\ run[c].i > Len(administrationDirectories) ]_vars

\* a run holds the block of a failed directory and has synced a later directory
C6_LaterDirectorySynced ==
    \E c \in Callers :
        /\ pc[c] = "loop"
        /\ Len(run[c].visited) >= 2
        /\ run[c].result[run[c].visited[1]].Errors.items # << >>
        /\ run[c].result[run[c].visited[2]].Errors.items = << >>
        /\ run[c].result[run[c].visited[2]].CountDeleted > 0

-----------------------------------------------------------------------------
(* deduplicateHistoryEntries applied to pulled histories *)

\* longest pulled history explored
MaxEntries == 3

\* entries a history may hold for Organization/x and Organization/y
orgX1 == Put(Dir1, [ Resource("Organization", "x", 1) EXCEPT !.name = "v1" ])
orgX2 == Put(Dir1, [ Resource("Organization", "x", 2) EXCEPT !.name = "v2" ])
orgX2b == Put(Dir1, [ Resource("Organization", "x", 2) EXCEPT !.name = "v2b" ])
orgXUntimed == Put(Dir1, [ Resource("Organization", "x", 0) EXCEPT !.name = "v0" ])
orgXDeleted == DeleteEntry(<< Dir1, "Organization", "x" >>, << "Organization", "x", "_history", "3" >>)
orgY1 == Put(Dir1, Resource("Organization", "y", 1))
\* entries without an extractable ID: a body without id, a DELETE whose request URL has
\* one segment and whose fullUrl is the empty string
bodyNoID == Put(Dir1, Resource("Organization", "", 1))
deleteNoID == DeleteEntry(EmptyFullUrl, << "Organization" >>)

DedupPool == { orgX1, orgX2, orgX2b, orgXUntimed, orgXDeleted, orgY1, bodyNoID, deleteNoID }

DedupInputs == UNION { [ 1..n -> DedupPool ] : n \in 1..MaxEntries }

InitDedup ==
    /\ input \in DedupInputs
    /\ output = << >>
    /\ pc = "ready"
    /\ config = << >>
    /\ administrationDirectories = << >>
    /\ directoryResourceTypes = << >>
    /\ lastUpdateTimes = << >>
    /\ stateFile = << >>
    /\ updateMux = 0
    /\ run = << >>
    /\ sync = << >>
    /\ runs = 0
    /\ prevFirst = << >>

\* deduplicatedEntries := deduplicateHistoryEntries(entries)
Deduplicate ==
    /\ pc = "ready"
    /\ output' \in deduplicateHistoryEntries(input)
    /\ pc' = "done"
    /\ UNCHANGED << config, administrationDirectories, directoryResourceTypes, lastUpdateTimes,
                    stateFile, updateMux, run, sync, runs, prevFirst, input >>

NextDedup == Deduplicate

SpecDedup == InitDedup /\ [][NextDedup]_vars

\* the positions of the input entries that carry the resource ID
positionsOf(id) == { i \in DOMAIN input : dedupResourceID(input[i]) = id }

\* the resource IDs of the input
inputIDs == { dedupResourceID(input[i]) : i \in DOMAIN input } \ { "" }

Min(S) == CHOOSE x \in S : \A y \in S : x <= y

Max(S) == CHOOSE x \in S : \A y \in S : x >= y

\* the output entries that carry the resource ID
survivorsOf(id) == { output[i] : i \in { j \in DOMAIN output : dedupResourceID(output[j]) = id } }

isDelete(entry) == entry.hasRequest /\ entry.method = "DELETE"

\* C7 as stated: for an ID with several entries the survivor is the non-DELETE entry
\* with the greatest meta.lastUpdated; a DELETE survives only if no entry of the ID
\* carries a timestamp.
C7_NewestBodySurvives ==
    pc = "done" =>
        \A id \in inputIDs :
            LET timed == { i \in positionsOf(id) : getLastUpdated(input[i]) # 0 }
                newest == Max({ getLastUpdated(input[i]) : i \in positionsOf(id) })
            IN  \A e \in survivorsOf(id) :
                    /\ timed # {} => ~isDelete(e) /\ getLastUpdated(e) = newest
                    /\ isDelete(e) => timed = {}

\* C7: for every resource ID exactly one entry survives: the first entry of the ID
\* when it carries no timestamp (a DELETE, or a body without meta.lastUpdated), and
\* otherwise the earliest entry among those with the greatest meta.lastUpdated.
C7_FirstOrNewerSurvives ==
    pc = "done" =>
        \A id \in inputIDs :
            LET first == Min(positionsOf(id))
                newest == Max({ getLastUpdated(input[i]) : i \in positionsOf(id) })
                expected == IF getLastUpdated(input[first]) = 0 THEN input[first]
                            ELSE input[Min({ i \in positionsOf(id) :
                                             getLastUpdated(input[i]) = newest })]
            IN  /\ survivorsOf(id) = { expected }
                /\ Cardinality({ j \in DOMAIN output : dedupResourceID(output[j]) = id }) = 1

\* a DELETE that heads the history survives although a timestamped body follows it
C7_LeadingDeleteSurvives ==
    /\ pc = "done"
    /\ Len(input) >= 2
    /\ input[1] = orgXDeleted
    /\ input[2] = orgX2
    /\ orgXDeleted \in Range(output)
    /\ orgX2 \notin Range(output)

\* the input entries from which no ID can be extracted, in input order
entriesWithoutIDOf(entries) == SelectSeq(entries, LAMBDA entry : dedupResourceID(entry) = "")

\* C23: deduplicateHistoryEntries returns, for every resource ID extractable from an
\* input entry, exactly one entry with that ID, which is an input entry; the entries
\* without an extractable ID are all kept, in input order, after every entry with an
\* ID; nothing is returned that was not in the input.
C23_OnePerIDThenTheRest ==
    pc = "done" =>
        LET n == Cardinality(inputIDs)
        IN  /\ \A id \in inputIDs :
                   /\ Cardinality({ j \in DOMAIN output : dedupResourceID(output[j]) = id }) = 1
                   /\ survivorsOf(id) \subseteq { input[i] : i \in positionsOf(id) }
            /\ Len(output) = n + Len(entriesWithoutIDOf(input))
            /\ \A j \in 1..n : dedupResourceID(output[j]) # ""
            /\ SubSeq(output, n + 1, Len(output)) = entriesWithoutIDOf(input)
            /\ Range(output) \subseteq Range(input)

\* two entries without ID around an entry with an ID: the latter comes first in the
\* output, the two follow in their input order
C23_EntriesWithoutIDAtTail ==
    /\ pc = "done"
    /\ input = << deleteNoID, orgX1, bodyNoID >>
    /\ output = << orgX1, deleteNoID, bodyNoID >>

-----------------------------------------------------------------------------
(* buildUpdateTransaction applied to one pulled entry *)

provOrgNoID == [ Resource("Organization", "", 1) EXCEPT !.ura = << "1" >> ]

\* the entries handed to buildUpdateTransaction
TxEntries ==
    { Put(Dir1, provOrg), Put(Dir1, provChild), Put(Dir1, provOrphan), Put(Dir1, provEp),
      Put(RootA, rootOrg1), Put(RootA, rootEp1), Put(RootA, rootEpPlain),
      Put(Dir1, Resource("Something-else", "x1", 1)),
      Put(Dir1, provOrgNoID),
      Put(Dir1, [ provChild EXCEPT !.name = "Department" ]),
      Put(Dir1, [ provEp EXCEPT !.name = "Service" ]),
      Put(RootA, [ rootEp1 EXCEPT !.name = "Directory" ]),
      PutEntry(<< Dir1, "Organization", "p1" >>, "POST", provOrg),
      DeleteEntry(<< Dir1, "Organization", "p1" >>, << "Organization", "p1" >>),
      DeleteEntry(<< Dir1, "Endpoint", "e5" >>, << "Endpoint", "e5", "_history", "2" >>),
      DeleteEntry(<< Dir1, "Practitioner", "z" >>, << "Practitioner", "z" >>),
      DeleteEntry(<< Dir1, "Organization", "p1" >>, << "" >>),
      [ Put(Dir1, provOrg) EXCEPT !.fullUrl = << >> ],
      [ Put(Dir1, provOrg) EXCEPT !.hasResource = FALSE, !.resource = NoResource ],
      SearchEntry(<< Dir1, "Organization", "p1" >>, provOrg) }

\* the organization trees handed to buildUpdateTransaction
TxTrees ==
    { {},
      createOrganizationTree(<< SearchEntry(<< RootA, "Organization", "o1" >>, rootOrg1) >>),
      createOrganizationTree(<< SearchEntry(<< Dir1, "Organization", "p1" >>, provOrg),
                                SearchEntry(<< Dir1, "Organization", "p2" >>, provChild) >>) }

TxInputs ==
    [ entry                   : TxEntries,
      allowedResourceTypes    : { rootDirectoryResourceTypes, defaultDirectoryResourceTypes },
      tree                    : TxTrees,
      isDiscoverableDirectory : BOOLEAN,
      sourceBaseURL           : { Dir1, BadURL } ]

InitTx ==
    /\ input \in TxInputs
    /\ output = [ tx |-> << >>, err |-> "" ]
    /\ pc = "ready"
    /\ config = << >>
    /\ administrationDirectories = << >>
    /\ directoryResourceTypes = << >>
    /\ lastUpdateTimes = << >>
    /\ stateFile = << >>
    /\ updateMux = 0
    /\ run = << >>
    /\ sync = << >>
    /\ runs = 0
    /\ prevFirst = << >>

\* one iteration of the loop of updateFromDirectory over an entry that has a request,
\* with an empty transaction
BuildEntry ==
    /\ pc = "ready"
    /\ output' = buildUpdateTransaction(<< >>, input.entry, input.allowedResourceTypes,
                     input.tree, healthcareServicesOf(<< input.entry >>),
                     input.isDiscoverableDirectory, input.sourceBaseURL)
    /\ pc' = "done"
    /\ UNCHANGED << config, administrationDirectories, directoryResourceTypes, lastUpdateTimes,
                    stateFile, updateMux, run, sync, runs, prevFirst, input >>

NextTx == BuildEntry

SpecTx == InitTx /\ [][NextTx]_vars

\* the input entry reaches the validator and the validator accepts it
passesValidation ==
    /\ input.entry.fullUrl # << >>
    /\ input.entry.hasRequest
    /\ input.entry.method # "DELETE"
    /\ input.entry.hasResource
    /\ input.entry.resource.resourceType # ""
    /\ ValidateUpdate(input.allowedResourceTypes, input.entry.resource, input.tree,
                      healthcareServicesOf(<< input.entry >>)) = ""

\* the source URL of the input can be built: the entry has an id, the base is valid
hasSourceURL == input.entry.resource.id # "" /\ validSourceBase(input.sourceBaseURL)

isDirectoryEndpoint(res) == res.resourceType = "Endpoint" /\ res.payloadMcsd

C9_BodiesWereValidated ==
    pc = "done" =>
        \A i \in DOMAIN output.tx :
            output.tx[i].hasResource =>
                LET res == input.entry.resource
                IN  /\ passesValidation
                    /\ res.resourceType \in Range(input.allowedResourceTypes)
                    /\ (res.resourceType = "Organization" /\ res.ura = << >>) =>
                           validatePartOfChain(res, input.tree, { res.id }, 0)
                    /\ output.err = ""

\* an Organization without URA is in the transaction because its partOf chain is valid
C9_ChildOrganizationAccepted ==
    /\ pc = "done"
    /\ input.entry.resource = provChild
    /\ ~input.isDiscoverableDirectory
    /\ Len(output.tx) = 1
    /\ output.tx[1].hasResource

\* C10: the body of every PUT entry has no id, meta.source is the source URL built from
\* the base URL and the type and id of the pulled resource, and meta.versionId and
\* meta.lastUpdated are absent.
C10_PutBodyIdentity ==
    pc = "done" =>
        \A i \in DOMAIN output.tx :
            output.tx[i].method = "PUT" =>
                LET res == input.entry.resource
                    sourceURL == input.sourceBaseURL \o "/" \o res.resourceType \o "/" \o res.id
                IN  /\ output.tx[i].hasResource
                    /\ output.tx[i].resource.id = ""
                    /\ output.tx[i].resource.meta.source = sourceURL
                    /\ output.tx[i].resource.meta.versionId = ""
                    /\ output.tx[i].resource.meta.lastUpdated = 0
                    /\ output.tx[i].resource.resourceType = res.resourceType

\* a pulled resource with id, versionId and lastUpdated has become a PUT entry
C10_PulledMetaReplaced ==
    /\ pc = "done"
    /\ Len(output.tx) = 1
    /\ output.tx[1].method = "PUT"
    /\ input.entry.resource.id = "p1"
    /\ input.entry.resource.meta.versionId # ""
    /\ input.entry.resource.meta.lastUpdated # 0
    /\ output.tx[1].resource.meta.source = "https://dir-1/fhir/Organization/p1"

-----------------------------------------------------------------------------
(* convertReferencesRecursive applied to nested resource bodies *)

\* deepest nesting of objects and arrays explored
MaxNesting == 2

\* a decoded JSON value (any): a string (its "/"-separated segments), an object
\* (map[string]any) or an array ([]any)
JString(segs) == [ kind |-> "string", str |-> segs, fields |-> << >>, items |-> << >> ]

JObject(fields) == [ kind |-> "object", str |-> << >>, fields |-> fields, items |-> << >> ]

JArray(items) == [ kind |-> "array", str |-> << >>, fields |-> << >>, items |-> items ]

\* the value the code assigns to v["reference"] for a reference of two segments
conditionalReference(segs, sourceBaseURL) ==
    << segs[1] \o "?_source=" \o QueryEscape(BuildSourceURL(sourceBaseURL, << Join(segs) >>)) >>

\* a variant of convertReferencesValue that rewrites the reference of the outermost
\* object only
convertOutermostOnly(v, sourceBaseURL) ==
    IF /\ v.kind = "object"
       /\ "reference" \in DOMAIN v.fields
       /\ v.fields["reference"].kind = "string"
       /\ Len(v.fields["reference"].str) = 2
    THEN JObject([ v.fields EXCEPT !["reference"] =
                     JString(conditionalReference(v.fields["reference"].str, sourceBaseURL)) ])
    ELSE v

RECURSIVE convertReferencesValue(_, _)
\* convertReferencesRecursive(obj any, sourceBaseURL) on a decoded JSON value
convertReferencesValue(v, sourceBaseURL) ==
    CASE v.kind = "object" ->
            LET rewritten ==
                    IF /\ "reference" \in DOMAIN v.fields
                       /\ v.fields["reference"].kind = "string"
                       /\ Len(v.fields["reference"].str) = 2
                    THEN [ v.fields EXCEPT !["reference"] =
                             JString(conditionalReference(v.fields["reference"].str, sourceBaseURL)) ]
                    ELSE v.fields
            IN  JObject([ k \in DOMAIN rewritten |->
                            convertReferencesValue(rewritten[k], sourceBaseURL) ])
      [] v.kind = "array" ->
            JArray([ i \in DOMAIN v.items |-> convertReferencesValue(v.items[i], sourceBaseURL) ])
      [] OTHER -> v

\* string values a resource body may hold: T/i, an absolute URL, a versioned
\* reference, a urn, a fragment
JStrings ==
    { JString(<< "Organization", "p1" >>),
      JString(<< "https:", "", "dir-1", "fhir", "Organization", "p1" >>),
      JString(<< "Organization", "p1", "_history", "2" >>),
      JString(<< "urn:uuid:7" >>),
      JString(<< "", "p1" >>) }

RECURSIVE JValues(_)
\* the JSON values of nesting depth at most n
JValues(n) ==
    IF n = 0 THEN JStrings
    ELSE LET inner == JValues(n - 1)
         IN  inner
             \cup { JObject([ k \in { "reference" } |-> v ]) : v \in inner }
             \cup { JObject([ k \in { "part" } |-> v ]) : v \in inner }
             \cup { JArray(<< v >>) : v \in inner }
             \cup { JObject([ k \in { "reference", "part" } |->
                               IF k = "reference" THEN v ELSE w ]) : v \in JStrings, w \in JStrings }
             \cup { JArray(<< JObject([ k \in { "reference" } |-> v ]), w >>) :
                      v \in JStrings, w \in JStrings }

InitRefs ==
    /\ input \in [ body : JValues(MaxNesting), sourceBaseURL : { Dir1 } ]
    /\ output = JString(<< >>)
    /\ pc = "ready"
    /\ config = << >>
    /\ administrationDirectories = << >>
    /\ directoryResourceTypes = << >>
    /\ lastUpdateTimes = << >>
    /\ stateFile = << >>
    /\ updateMux = 0
    /\ run = << >>
    /\ sync = << >>
    /\ runs = 0
    /\ prevFirst = << >>

\* convertReferencesRecursive(resource, sourceBaseURL) in buildUpdateTransaction
ConvertReferences ==
    /\ pc = "ready"
    /\ output' = convertReferencesValue(input.body, input.sourceBaseURL)
    /\ pc' = "done"
    /\ UNCHANGED << config, administrationDirectories, directoryResourceTypes, lastUpdateTimes,
                    stateFile, updateMux, run, sync, runs, prevFirst, input >>

NextRefs == ConvertReferences

SpecRefs == InitRefs /\ [][NextRefs]_vars

\* the conditional reference the spec prescribes for "T/i"
prescribedReference(segs, sourceBaseURL) ==
    << segs[1] \o "?_source=" \o QueryEscape(sourceBaseURL \o "/" \o segs[1] \o "/" \o segs[2]) >>

RECURSIVE referencesRewritten(_, _, _)
\* out is v with every "reference" string of two segments replaced by the prescribed
\* conditional reference, and nothing else changed
referencesRewritten(v, out, sourceBaseURL) ==
    /\ out.kind = v.kind
    /\ CASE v.kind = "object" ->
               /\ DOMAIN out.fields = DOMAIN v.fields
               /\ \A k \in DOMAIN v.fields :
                      IF k = "reference" /\ v.fields[k].kind = "string"
                      THEN out.fields[k] =
                               IF Len(v.fields[k].str) = 2
                               THEN JString(prescribedReference(v.fields[k].str, sourceBaseURL))
                               ELSE v.fields[k]
                      ELSE referencesRewritten(v.fields[k], out.fields[k], sourceBaseURL)
         [] v.kind = "array" ->
               /\ Len(out.items) = Len(v.items)
               /\ \A i \in DOMAIN v.items :
                      referencesRewritten(v.items[i], out.items[i], sourceBaseURL)
         [] OTHER -> out = v

RECURSIVE hasBareReference(_)
\* some field named reference, at any depth, holds a string of the shape T/i
hasBareReference(v) ==
    CASE v.kind = "object" ->
            \E k \in DOMAIN v.fields :
                \/ k = "reference" /\ v.fields[k].kind = "string" /\ Len(v.fields[k].str) = 2
                \/ hasBareReference(v.fields[k])
      [] v.kind = "array" -> \E i \in DOMAIN v.items : hasBareReference(v.items[i])
      [] OTHER -> FALSE

\* C11: in a converted body every field named reference with a value of the shape T/i,
\* at every depth of objects and arrays, holds "T?_source=" and the encoded source URL
\* of T/i; no bare T/i reference is left and every other value is unchanged.
C11_ReferencesRewrittenAtEveryDepth ==
    pc = "done" =>
        /\ referencesRewritten(input.body, output, input.sourceBaseURL)
        /\ ~hasBareReference(output)

\* a T/i reference inside an object inside an array inside an object has been rewritten,
\* next to a value that is left as it was
C11_NestedReferenceRewritten ==
    /\ pc = "done"
    /\ input.body = JObject([ k \in { "part" } |->
                         JArray(<< JObject([ j \in { "reference" } |->
                                               JString(<< "Organization", "p1" >>) ]),
                                   JString(<< "Organization", "p1" >>) >>) ])
    /\ output.fields["part"].items[1].fields["reference"].str =
           << "Organization?_source=q{https://dir-1/fhir/Organization/p1}" >>
    /\ output.fields["part"].items[2] = JString(<< "Organization", "p1" >>)

-----------------------------------------------------------------------------
(* Properties of the registry under discovery (SpecDiscovery) *)

\* the URL without one trailing slash
TrimOneSlash(u) ==
    CASE u = Dir1Slash   -> Dir1
      [] u = Dir2Slash   -> Dir2
      [] u = Dir2Slashes -> Dir2Slash
      [] OTHER           -> u

\* the URL equals an entry of the exclusion list when one trailing slash is ignored on both
Excluded(u) ==
    \E i \in DOMAIN config.ExcludeAdminDirectories :
        TrimOneSlash(config.ExcludeAdminDirectories[i]) = TrimOneSlash(u)

\* the arguments Register is tried with in a reachable state
RegisterURLs == { RootC, Dir2, Dir2Slash, Dir2Slashes, BadURL }
RegisterURAs == { "", "111", "222" }
RegisterSources == { EmptyFullUrl, U7, U8 }

\* Register on the registry of the current state
Register(u, discover, sourceURL, ura) ==
    registerAdministrationDirectory(administrationDirectories, config.ExcludeAdminDirectories,
                                    u, directoryResourceTypes, discover, sourceURL, ura)

\* C12 as stated: no registry entry has an excluded base URL, and Register of an
\* excluded URL returns no error and leaves the registry unchanged.
C12_ExcludedRegisterSilent ==
    /\ \A i \in DOMAIN administrationDirectories :
           ~Excluded(administrationDirectories[i].fhirBaseURL)
    /\ \A u \in RegisterURLs, d \in BOOLEAN, src \in RegisterSources, ura \in RegisterURAs :
           Excluded(u) =>
               Register(u, d, src, ura) = [ dirs |-> administrationDirectories, err |-> "" ]

\* C12: in every reachable state no registry entry has a base URL that equals an entry
\* of the exclusion list when one trailing slash is ignored on both; Register of an
\* excluded URL leaves the registry unchanged, and it returns no error when the URL is
\* an absolute http(s) URL with a host, the invalid-URL error otherwise.
C12_ExcludedNeverRegistered ==
    /\ \A i \in DOMAIN administrationDirectories :
           ~Excluded(administrationDirectories[i].fhirBaseURL)
    /\ \A u \in RegisterURLs, d \in BOOLEAN, src \in RegisterSources, ura \in RegisterURAs :
           Excluded(u) =>
               /\ Register(u, d, src, ura).dirs = administrationDirectories
               /\ validSourceBase(u) => Register(u, d, src, ura).err = ""
               /\ ~validSourceBase(u) => Register(u, d, src, ura).err = "invalid FHIR base URL"

\* discovery has run over a pulled mCSD directory Endpoint whose address is excluded
C12_ExcludedEndpointDiscovered ==
    \E c \in Callers :
        /\ pc[c] = "submitting"
        /\ sync[c].dir.discover
        /\ \E j \in DOMAIN sync[c].entries :
              /\ sync[c].entries[j].hasResource
              /\ sync[c].entries[j].resource.payloadMcsd
              /\ Excluded(sync[c].entries[j].resource.address)
        /\ Len(administrationDirectories) = 1

\* the registry holds an entry for the pair
Registered(fhirBaseURL, authoritativeUra) ==
    \E i \in DOMAIN administrationDirectories :
        /\ administrationDirectories[i].fhirBaseURL = fhirBaseURL
        /\ administrationDirectories[i].authoritativeUra = authoritativeUra

\* the organizations of the root directory that name a directory Endpoint
DiscoveryParents == { rootOrgA, rootOrgB }

\* C13: no two registry entries share (baseURL, authoritativeURA), nor a report key;
\* Register of a pair that is present returns no error and leaves the registry as it
\* is whatever the other arguments; after discovery over a directory Endpoint that
\* organizations with different URAs name, the registry holds one entry per URA for
\* its address, and a run that removed no entry returns with a block for every entry.
C13_RegisterIdempotentOnPair ==
    /\ \A i, j \in DOMAIN administrationDirectories :
           i # j => /\ << administrationDirectories[i].fhirBaseURL,
                          administrationDirectories[i].authoritativeUra >>
                         # << administrationDirectories[j].fhirBaseURL,
                              administrationDirectories[j].authoritativeUra >>
                    /\ dirKey(administrationDirectories[i]) # dirKey(administrationDirectories[j])
    /\ \A i \in DOMAIN administrationDirectories, d \in BOOLEAN, src \in RegisterSources :
           Register(administrationDirectories[i].fhirBaseURL, d, src,
                    administrationDirectories[i].authoritativeUra)
               = [ dirs |-> administrationDirectories, err |-> "" ]
    /\ \A c \in Callers :
           (pc[c] = "submitting" /\ sync[c].dir.discover) =>
               \A j \in DOMAIN sync[c].entries, o \in DiscoveryParents :
                   LET entry == sync[c].entries[j]
                   IN  ( /\ entry.hasResource
                         /\ entry.resource.payloadMcsd
                         /\ listsEndpoint(o, entry.resource.id)
                         /\ ~Excluded(entry.resource.address) )
                       => Registered(entry.resource.address, o.ura[1])
    /\ \A c \in Callers :
           (AboutToReturn(c) /\ ~run[c].removed) =>
               \A i \in DOMAIN administrationDirectories :
                   dirKey(administrationDirectories[i]) \in DOMAIN run[c].result

\* a run has synced the shared directory once for each URA and reports both
C13_SharedDirectorySyncedPerUra ==
    \E c \in Callers :
        /\ AboutToReturn(c)
        /\ Registered(Dir2, "111") /\ Registered(Dir2, "222")
        /\ \A ura \in { "111", "222" } :
              /\ makeDirectoryKey(Dir2, ura) \in DOMAIN run[c].result
              /\ run[c].result[makeDirectoryKey(Dir2, ura)].Errors.items = << >>
              /\ run[c].result[makeDirectoryKey(Dir2, ura)].CountCreated = 1

\* the pulled entry is an mCSD directory Endpoint that organization o names and whose
\* address is not excluded: discovery calls Register for it
Discoverable(entry, o) ==
    /\ entry.hasResource
    /\ entry.resource.payloadMcsd
    /\ listsEndpoint(o, entry.resource.id)
    /\ ~Excluded(entry.resource.address)

\* the pulled entries hold an Endpoint DELETE
HasEndpointDelete(entries) ==
    \E j \in DOMAIN entries :
        /\ entries[j].method = "DELETE"
        /\ Len(entries[j].url) >= 2 /\ entries[j].url[1] = "Endpoint"

DeletedEndpointURLs(entries) ==
    { entries[j].fullUrl : j \in { k \in DOMAIN entries :
          /\ entries[k].method = "DELETE"
          /\ Len(entries[k].url) >= 2 /\ entries[k].url[1] = "Endpoint"
          /\ entries[k].fullUrl # << >> } }

\* C15 as stated: when the entries pulled from a discoverable directory hold a DELETE
\* of an Endpoint with fullUrl U, the registry after the step that processes them has
\* no entry whose sourceEntryURL is U, and the entries it held with any other
\* sourceEntryURL are still there, in their order.
C15_DeletedEndpointUnregistered ==
    [][ \A c \in Callers :
          (pc[c] = "pulled" /\ pc'[c] # "pulled" /\ sync[c].dir.discover) =>
              LET deleted == DeletedEndpointURLs(sync[c].entries)
                  kept == SelectSeq(administrationDirectories,
                                    LAMBDA dir : dir.sourceURL \notin deleted)
              IN  /\ \A i \in DOMAIN administrationDirectories' :
                         administrationDirectories'[i].sourceURL \notin deleted
                  /\ Len(administrationDirectories') >= Len(kept)
                  /\ SubSeq(administrationDirectories', 1, Len(kept)) = kept ]_vars

-----------------------------------------------------------------------------
(* Properties of the pull (Spec) *)

\* the requests of a sync by kind
HistoryRequests(s) == SelectSeq(s.requests, LAMBDA r : r.history)
SnapshotRequests(s) == SelectSeq(s.requests, LAMBDA r : ~r.history)

RECURSIVE SnapshotPulls(_, _)
\* what the current-state searches for the resource types from the k-th on can add up to
SnapshotPulls(dir, k) ==
    IF k > Len(dir.resourceTypes) THEN { << >> }
    ELSE { [ j \in DOMAIN feed |-> withSnapshotRequest(feed[j], dir.resourceTypes[k]) ] \o rest :
             feed \in SnapshotFeeds(dir, dir.resourceTypes[k]), rest \in SnapshotPulls(dir, k + 1) }

\* the sync has fallen back from _history to Snapshot Mode
FellBack(s) == s.useHistoryMode /\ s.useSnapshotMode

\* the 410 error of a sync without Snapshot Mode
Gone == "410 Gone: history too old and Snapshot Mode is disabled"

\* C16: a _history request that fails with 410 Gone leads, with SnapshotModeSupport,
\* to Snapshot Mode with no entries kept and no _since: the searches that follow ask
\* for the resource types of the whitelist in order, and the entries the sync goes on
\* with are those of the searches alone; without SnapshotModeSupport it ends the sync
\* with the 410 error in a zero block, no transaction and the cursors as they were.
C16_GoneFallsBackOrFails ==
    [][ \A c \in Callers :
          /\ (pc[c] = "history" /\ pc'[c] = "snapshot") =>
                /\ config.SnapshotModeSupport
                /\ sync'[c].entries = << >>
                /\ sync'[c].since = ""
                /\ lastUpdateTimes' = lastUpdateTimes
          /\ (pc'[c] \in SyncSteps /\ FellBack(sync'[c])) =>
                LET s == sync'[c]
                    searches == SnapshotRequests(s)
                IN  /\ Len(searches) <= Len(s.dir.resourceTypes)
                    /\ \A j \in DOMAIN searches :
                           /\ searches[j].resourceType = s.dir.resourceTypes[j]
                           /\ searches[j].since = ""
                    /\ (pc'[c] \in { "pulled", "submitting", "accepted" }) =>
                           /\ Len(searches) = Len(s.dir.resourceTypes)
                           /\ s.entries \in SnapshotPulls(s.dir, 1)
          /\ (pc[c] = "history" /\ ~config.SnapshotModeSupport) => pc'[c] # "snapshot"
          /\ ( /\ FailsSync(c)
               /\ run'[c].result[dirKey(sync[c].dir)].Errors.items = << Gone >> ) =>
                /\ pc[c] = "history"
                /\ ~config.SnapshotModeSupport
                /\ sync[c].tx = << >>
                /\ run'[c].result[dirKey(sync[c].dir)].CountCreated = 0
                /\ run'[c].result[dirKey(sync[c].dir)].CountUpdated = 0
                /\ run'[c].result[dirKey(sync[c].dir)].CountDeleted = 0
                /\ lastUpdateTimes' = lastUpdateTimes
                /\ stateFile' = stateFile ]_vars

\* a sync that fell back after a successful _history request has had its transaction accepted
C16_CompletedViaSnapshot ==
    \E c \in Callers :
        /\ pc[c] = "accepted"
        /\ FellBack(sync[c])
        /\ Len(HistoryRequests(sync[c])) = 2
        /\ sync[c].txResult # << >>

-----------------------------------------------------------------------------
(* Two syncs of one provider directory whose content does not change (SpecTwice) *)

\* the latest time on the clock, in seconds
MaxTime == 4

\* clockSkewBuffer, in seconds
clockSkewBuffer == 2

\* the resources of the directory, last written at the given time (0 = not there)
versionsOf(source, resourceType) ==
    CASE resourceType = "Organization" /\ source.orgTime > 0 ->
            << [ provOrg EXCEPT !.meta.lastUpdated = source.orgTime ] >>
      [] resourceType = "Endpoint" /\ source.epTime > 0 ->
            << [ provEp EXCEPT !.meta.lastUpdated = source.epTime ] >>
      [] OTHER -> << >>

NoCursor == [ present |-> FALSE, value |-> 0 ]

\* a variant of historySince that returns every version whatever _since is
historyIgnoringSince(source, resourceType, cursor) ==
    LET versions == versionsOf(source, resourceType)
    IN  [ j \in DOMAIN versions |-> Put(Dir1, versions[j]) ]

\* GET [base]/[type]/_history?_since=: the versions written at or after _since
historySince(source, resourceType, cursor) ==
    LET versions == SelectSeq(versionsOf(source, resourceType),
                              LAMBDA r : ~cursor.present \/ r.meta.lastUpdated >= cursor.value)
    IN  [ j \in DOMAIN versions |-> Put(Dir1, versions[j]) ]

\* GET [base]/[type]: the current resources, decorated as the snapshot loop does
searchCurrent(source, resourceType) ==
    LET versions == versionsOf(source, resourceType)
    IN  [ j \in DOMAIN versions |->
            withSnapshotRequest(SearchEntry(<< Dir1, resourceType, versions[j].id >>, versions[j]),
                                resourceType) ]

RECURSIVE pullAll(_, _, _, _, _)
\* the entries the query loop accumulates over the resource types from the k-th on
pullAll(source, cursor, useSnapshotMode, resourceTypes, k) ==
    IF k > Len(resourceTypes) THEN << >>
    ELSE (IF useSnapshotMode THEN searchCurrent(source, resourceTypes[k])
          ELSE historySince(source, resourceTypes[k], cursor))
         \o pullAll(source, cursor, useSnapshotMode, resourceTypes, k + 1)

\* nextSyncTime with times as numbers: stamp 0 = the first bundle has no meta.lastUpdated
nextSyncTimeAt(stamp, queryStartTime) ==
    IF stamp # 0 THEN stamp ELSE queryStartTime - clockSkewBuffer

\* the query directory answers a conditional PUT with 201 when it creates, 200 when
\* the resource with that _source is there already
putStatuses(tx, store) == [ j \in DOMAIN tx |-> IF tx[j].url \in store THEN "200" ELSE "201" ]

\* updateFromDirectory for the provider directory of URA 1 at Dir1, without failing
\* requests, started at queryStartTime on the local clock, the first bundle carrying
\* meta.lastUpdated = stamp (0 = none): the cursor, the content of the query directory
\* and the report afterwards, and the entries that were pulled
syncAt(source, cursor, store, queryStartTime, stamp, snapshotModeSupport) ==
    LET useSnapshotMode == ~cursor.present /\ snapshotModeSupport
        entries == pullAll(source, cursor, useSnapshotMode, ConfiguredResourceTypes, 1)
        afterPull == IF useSnapshotMode THEN NoCursor ELSE cursor
        tree == filterByAuthoritativeUra(
                    createOrganizationTree(searchCurrent(source, "Organization")), "1")
    IN  { LET built == buildLoop(deduplicatedEntries, << >>, ZeroReport, ConfiguredResourceTypes,
                                 tree, healthcareServicesOf(entries), FALSE, Dir1)
          IN  IF Len(built.tx) = 0
              THEN [ cursor |-> afterPull, store |-> store, report |-> built.report,
                     pulled |-> entries ]
              ELSE [ cursor |-> [ present |-> TRUE,
                                  value   |-> nextSyncTimeAt(stamp, queryStartTime) ],
                     store  |-> store \cup { built.tx[j].url : j \in DOMAIN built.tx },
                     report |-> countResponses(putStatuses(built.tx, store), built.report),
                     pulled |-> entries ] :
          deduplicatedEntries \in deduplicateHistoryEntries(entries) }

\* the sync when the local clock and the clock of the source agree: a stamped first
\* bundle carries the time of the query
syncOnce(source, cursor, store, now, stamped, snapshotModeSupport) ==
    syncAt(source, cursor, store, now, IF stamped THEN now ELSE 0, snapshotModeSupport)

\* the directory as it is when the first run starts, the time of the first run, and
\* whether the server stamps its bundles
TwiceInputs ==
    { i \in [ source              : [ orgTime : 0..MaxTime, epTime : 0..MaxTime ],
              now                 : 1..MaxTime,
              stamped             : BOOLEAN,
              SnapshotModeSupport : BOOLEAN ] :
        i.source.orgTime <= i.now /\ i.source.epTime <= i.now }

InitTwice ==
    /\ input \in TwiceInputs
    /\ output = [ cursor |-> NoCursor, since |-> NoCursor, store |-> {},
                  first |-> ZeroReport, second |-> ZeroReport ]
    /\ pc = "ready"
    /\ config = << >>
    /\ administrationDirectories = << >>
    /\ directoryResourceTypes = << >>
    /\ lastUpdateTimes = << >>
    /\ stateFile = << >>
    /\ updateMux = 0
    /\ run = << >>
    /\ sync = << >>
    /\ runs = 0
    /\ prevFirst = << >>

\* the first update(): no cursor yet
FirstRun ==
    /\ pc = "ready"
    /\ \E r \in syncOnce(input.source, NoCursor, {}, input.now, input.stamped,
                          input.SnapshotModeSupport) :
          output' = [ output EXCEPT !.cursor = r.cursor, !.store = r.store, !.first = r.report ]
    /\ pc' = "once"
    /\ UNCHANGED << config, administrationDirectories, directoryResourceTypes, lastUpdateTimes,
                    stateFile, updateMux, run, sync, runs, prevFirst, input >>

\* the second update(), later, the directory being as it was
SecondRun ==
    /\ pc = "once"
    /\ \E r \in syncOnce(input.source, output.cursor, output.store, MaxTime + 1, input.stamped,
                          input.SnapshotModeSupport) :
          output' = [ output EXCEPT !.cursor = r.cursor, !.since = output.cursor,
                                    !.store = r.store, !.second = r.report ]
    /\ pc' = "twice"
    /\ UNCHANGED << config, administrationDirectories, directoryResourceTypes, lastUpdateTimes,
                    stateFile, updateMux, run, sync, runs, prevFirst, input >>

NextTwice == FirstRun \/ SecondRun

SpecTwice == InitTwice /\ [][NextTwice]_vars

\* the counts of a report block are zero
ZeroCounts(report) ==
    report.CountCreated = 0 /\ report.CountUpdated = 0 /\ report.CountDeleted = 0

\* every resource of the directory was last written before the time
AllOlderThan(source, time) ==
    \A resourceType \in Range(ConfiguredResourceTypes) :
        \A j \in DOMAIN versionsOf(source, resourceType) :
            versionsOf(source, resourceType)[j].meta.lastUpdated < time

\* C17 as stated: the second of two runs over an unchanged directory reports
\* created = updated = deleted = 0 for it.
C17_SecondRunCountsZero ==
    pc = "twice" => ZeroCounts(output.second)

\* C17: the second of two runs over an unchanged directory reports created = updated
\* = deleted = 0 for it when the first run stored no cursor (it had nothing to submit)
\* or every resource of the directory was last written before the cursor it stored.
C17_SecondRunCountsZeroIfOlder ==
    (pc = "twice" /\ (output.since.present => AllOlderThan(input.source, output.since.value)))
        => ZeroCounts(output.second)

\* the first run created both resources and stored a cursor later than their last
\* writes; the second run has run with that cursor
C17_SyncedThenNothingNew ==
    /\ pc = "twice"
    /\ output.first.CountCreated = 2
    /\ output.since.present
    /\ AllOlderThan(input.source, output.since.value)
    /\ ZeroCounts(output.second)

\* C18 as stated: once the context of a run is cancelled, no request of the run
\* succeeds any more: a sync that has not yet had its transaction accepted ends at its
\* next step with an error in its block, the blocks of the directories synced
\* before stay as they are, and no cursor is changed by the syncs that fail.
C18_CancelledRunKeepsCursors ==
    [][ \A c \in Callers :
          ( /\ run[c].cancelled
            /\ pc[c] \in SyncSteps /\ pc[c] # "accepted"
            /\ << pc'[c], sync'[c] >> # << pc[c], sync[c] >> ) =>
              /\ FailsSync(c)
              /\ \A k \in DOMAIN run[c].result :
                     k \in DOMAIN run'[c].result /\ run'[c].result[k] = run[c].result[k]
              /\ lastUpdateTimes' = lastUpdateTimes
              /\ stateFile' = stateFile ]_vars

\* the resource types of a sequence of requests
TypesOf(requests) == [ j \in DOMAIN requests |-> requests[j].resourceType ]

\* the whitelist the kind of directory is meant to have
WhitelistOf(dir) ==
    IF dir.discover THEN rootDirectoryResourceTypes ELSE config.DirectoryResourceTypes

\* C19: in every sync the resource types asked from the directory for its entries are
\* those of its whitelist in whitelist order: the _history requests made so far, and
\* the searches made so far, each ask for the first types of the whitelist, and once
\* the pull is complete the requests of the mode it ended in are the whole whitelist;
\* the whitelist of a root is {Organization, Endpoint}, that of a discovered directory
\* the DirectoryResourceTypes of the configuration.
C19_RequestsFollowWhitelist ==
    \A c \in Callers :
        pc[c] \in SyncSteps =>
            LET s == sync[c]
                whitelist == WhitelistOf(s.dir)
                histories == TypesOf(HistoryRequests(s))
                searches == TypesOf(SnapshotRequests(s))
            IN  /\ s.dir.resourceTypes = whitelist
                /\ Len(histories) <= Len(whitelist)
                /\ histories = SubSeq(whitelist, 1, Len(histories))
                /\ Len(searches) <= Len(whitelist)
                /\ searches = SubSeq(whitelist, 1, Len(searches))
                /\ (pc[c] \in { "pulled", "submitting", "accepted" }) =>
                       IF s.useSnapshotMode THEN searches = whitelist
                       ELSE histories = whitelist /\ searches = << >>

\* the transaction of a discovered directory, pulled by _history with its own
\* whitelist, has been accepted
C19_DiscoveredPulledByWhitelist ==
    \E c \in Callers :
        /\ pc[c] = "accepted"
        /\ ~sync[c].dir.discover
        /\ ~sync[c].useSnapshotMode
        /\ TypesOf(sync[c].requests) = << "Organization" >>

\* C20 as stated: every directory registered by discovery has the default whitelist
\* when DirectoryResourceTypes was left empty, and the configured list otherwise.
C20_DiscoveredGetDefaultWhitelist ==
    \A i \in DOMAIN administrationDirectories :
        ~administrationDirectories[i].discover =>
            administrationDirectories[i].resourceTypes =
                IF config.DirectoryResourceTypes = << >>
                THEN defaultDirectoryResourceTypes
                ELSE config.DirectoryResourceTypes

-----------------------------------------------------------------------------
(* AuthTransport.RoundTrip (lib/httpauth): requests sent through one transport *)

\* requests sent through the transport in one behaviour
MaxRequests == 3

\* what a call of the TokenFunc returns (StaticToken, NoAuth, a failing provider)
TokenResults ==
    { [ token |-> "tok-1", err |-> "" ],
      [ token |-> "tok-2", err |-> "" ],
      [ token |-> "",      err |-> "" ],
      [ token |-> "",      err |-> "token fetch failed" ] }

\* the Authorization header of the request the caller hands over ("" = header absent);
\* http.Client sets Basic credentials for a URL with userinfo before the transport runs
RequestHeaders == { "", "Basic dXNlcjpwdw==" }

\* an http.Request: the header the transport touches
Request(authorization) == [ Authorization |-> authorization ]

\* a request object shared with the caller instead of cloned
cloneShared(heap, req) == [ heap |-> heap, ref |-> req ]

\* req.Clone(ctx): a new request object with a copy of the headers
Clone(heap, req) == [ heap |-> Append(heap, heap[req]), ref |-> Len(heap) + 1 ]

\* reqClone.Header.Set("Authorization", value)
SetAuthorization(heap, ref, value) ==
    [ heap EXCEPT ![ref] = [ @ EXCEPT !.Authorization = value ] ]

\* the request was not handed to Base.RoundTrip
NotSent == [ Authorization |-> "<not sent>" ]

\* RoundTrip of request object req; result is what t.GetToken() returns when called
RoundTrip(hasGetToken, heap, req, result) ==
    LET c == Clone(heap, req)
    IN  IF hasGetToken /\ result.err # ""
        THEN [ heap |-> c.heap, asked |-> 1, received |-> NotSent,
               err |-> "failed to get auth token: " \o result.err ]
        ELSE LET h == IF hasGetToken /\ result.token # ""
                      THEN SetAuthorization(c.heap, c.ref, "Bearer " \o result.token)
                      ELSE c.heap
             IN  [ heap |-> h, asked |-> IF hasGetToken THEN 1 ELSE 0,
                   received |-> h[c.ref], err |-> "" ]

\* NewAuthTransport(nil, getToken): getToken may be nil
InitAuth ==
    /\ input \in [ hasGetToken : BOOLEAN ]
    /\ output = [ heap |-> << >>, tokenCalls |-> 0, log |-> << >> ]
    /\ pc = "ready"
    /\ config = << >>
    /\ administrationDirectories = << >>
    /\ directoryResourceTypes = << >>
    /\ lastUpdateTimes = << >>
    /\ stateFile = << >>
    /\ updateMux = 0
    /\ run = << >>
    /\ sync = << >>
    /\ runs = 0
    /\ prevFirst = << >>

\* a caller builds a request and the transport's RoundTrip is called with it
SendRequest ==
    /\ Len(output.log) < MaxRequests
    /\ \E authorization \in RequestHeaders, result \in TokenResults :
          LET made == Append(output.heap, Request(authorization))
              req  == Len(made)
              r    == RoundTrip(input.hasGetToken, made, req, result)
          IN  output' = [ heap       |-> r.heap,
                          tokenCalls |-> output.tokenCalls + r.asked,
                          log        |-> Append(output.log,
                                                [ req      |-> req,
                                                  original |-> Request(authorization),
                                                  result   |-> result,
                                                  received |-> r.received,
                                                  err      |-> r.err ]) ]
    /\ UNCHANGED << config, administrationDirectories, directoryResourceTypes, lastUpdateTimes,
                    stateFile, updateMux, pc, run, sync, runs, prevFirst, input >>

NextAuth == SendRequest

SpecAuth == InitAuth /\ [][NextAuth]_vars

\* C21 as stated: one token call per request; a token error fails the request unsent;
\* an empty token sends the request without an Authorization header; a token sends it
\* with Authorization: Bearer <token>; the caller's request object is not modified.
C21_EmptyTokenNoHeader ==
    input.hasGetToken =>
        /\ output.tokenCalls = Len(output.log)
        /\ \A i \in DOMAIN output.log :
              LET e == output.log[i]
              IN  /\ e.result.err # "" => ( e.err # "" /\ e.received = NotSent )
                  /\ ( e.result.err = "" /\ e.result.token = "" ) =>
                         ( e.err = "" /\ e.received.Authorization = "" )
                  /\ ( e.result.err = "" /\ e.result.token # "" ) =>
                         ( e.err = "" /\ e.received.Authorization = "Bearer " \o e.result.token )
                  /\ output.heap[e.req] = e.original

\* C21: with a token function set, RoundTrip calls it once per request; a token error
\* fails the request, which is not sent; an empty token sends the request with the
\* Authorization header the caller's request had (none if it had none); a token sends
\* it with Authorization: Bearer <token>; the caller's request object is not modified.
\* Without a token function the request is sent with its headers as they were.
C21_TokenDecidesAuthorization ==
    /\ output.tokenCalls = IF input.hasGetToken THEN Len(output.log) ELSE 0
    /\ \A i \in DOMAIN output.log :
          LET e == output.log[i]
          IN  /\ ( input.hasGetToken /\ e.result.err # "" ) =>
                     ( e.err # "" /\ e.received = NotSent )
              /\ ( input.hasGetToken /\ e.result.err = "" /\ e.result.token = "" ) =>
                     ( e.err = "" /\ e.received = e.original )
              /\ ( input.hasGetToken /\ e.result.err = "" /\ e.result.token # "" ) =>
                     ( e.err = "" /\ e.received.Authorization = "Bearer " \o e.result.token )
              /\ ~input.hasGetToken => ( e.err = "" /\ e.received = e.original )
              /\ output.heap[e.req] = e.original

\* three requests went through one transport: one failed for its token, one was sent
\* with a bearer token in place of the caller's credentials, one with an empty token
C21_ThreeOutcomesSeen ==
    /\ input.hasGetToken
    /\ \E i, j, k \in DOMAIN output.log :
          /\ output.log[i].received = NotSent
          /\ output.log[j].original.Authorization # ""
          /\ output.log[j].received.Authorization = "Bearer tok-1"
          /\ output.log[k].result = [ token |-> "", err |-> "" ]
          /\ output.log[k].received.Authorization = ""

-----------------------------------------------------------------------------
(* Properties of the mode of a sync (Spec) *)

\* the three modes, read from the flags and the _since parameter of a sync
DeltaMode(s) == s.useHistoryMode /\ ~s.useSnapshotMode /\ s.since # ""
SnapshotMode(s) == s.useSnapshotMode /\ ~s.useHistoryMode /\ s.since = ""
HistoryModeNoSince(s) == s.useHistoryMode /\ ~s.useSnapshotMode /\ s.since = ""

\* the step is the start of a sync by caller c
BeginsSync(c) == pc[c] = "loop" /\ pc'[c] \in SyncSteps

\* the step is the first request of the sync of caller c that the source answered
FirstRequest(c) ==
    /\ pc[c] \in { "history", "snapshot" }
    /\ sync[c].requests = << >>
    /\ sync'[c].requests # << >>

\* C22: at the start of a sync the mode follows from the cursor store and the
\* configuration only: delta mode with _since = the stored cursor iff a cursor is
\* present for the key; snapshot mode without _since iff none is present and
\* SnapshotModeSupport is on; history mode without _since iff none is present and it is
\* off; exactly one of the three holds, and the first request is the one of that mode.
C22_ModeFromCursorAndConfig ==
    [][ \A c \in Callers :
           /\ BeginsSync(c) =>
                 LET s == sync'[c]
                     cursor == CursorEntry(lastUpdateTimes, dirKey(s.dir))
                 IN  /\ DeltaMode(s) <=> cursor.present
                     /\ cursor.present => s.since = cursor.value
                     /\ SnapshotMode(s) <=> ( ~cursor.present /\ config.SnapshotModeSupport )
                     /\ HistoryModeNoSince(s) <=> ( ~cursor.present /\ ~config.SnapshotModeSupport )
                     /\ Cardinality({ m \in { "delta", "snapshot", "history" } :
                                        \/ m = "delta" /\ DeltaMode(s)
                                        \/ m = "snapshot" /\ SnapshotMode(s)
                                        \/ m = "history" /\ HistoryModeNoSince(s) }) = 1
           /\ FirstRequest(c) =>
                 LET s == sync[c]
                     request == sync'[c].requests[1]
                 IN  /\ DeltaMode(s) => ( request.history /\ request.since = s.lastUpdate )
                     /\ SnapshotMode(s) => ( ~request.history /\ request.since = "" )
                     /\ HistoryModeNoSince(s) => ( request.history /\ request.since = "" )
                     /\ request.resourceType = s.dir.resourceTypes[1] ]_vars

\* with Snapshot Mode supported, a sync that found a cursor has asked _history with it
C22_DeltaDespiteSnapshotSupport ==
    \E c \in Callers :
        /\ config.SnapshotModeSupport
        /\ pc[c] \in SyncSteps
        /\ DeltaMode(sync[c])
        /\ sync[c].requests # << >>
        /\ sync[c].requests[1].history
        /\ sync[c].requests[1].since = "T1"

-----------------------------------------------------------------------------
(* One sync of a provider directory, from the pulled entries to the report (SpecSource) *)

\* entries the _history of the provider directory may hold
childDeleted ==
    DeleteEntry(<< Dir1, "Organization", "p2" >>, << "Organization", "p2", "_history", "2" >>)
noRequestEntry == SearchEntry(<< Dir1, "Organization", "p1" >>, provOrg)
noFullUrlEntry == PutEntry(<< >>, "PUT", provEp)
practitionerP2 == Put(Dir1, Resource("Practitioner", "p2", 1))

SourcePool ==
    { Put(Dir1, provOrg), Put(Dir1, provChild), Put(Dir1, provOrphan), Put(Dir1, provEp),
      childDeleted, noRequestEntry, noFullUrlEntry, practitionerP2 }

\* the answers of the Organization search of ensureParentOrganizationsMap
SourceOrganizations ==
    { << SearchEntry(<< Dir1, "Organization", "p1" >>, provOrg),
         SearchEntry(<< Dir1, "Organization", "p2" >>, provChild) >>,
      << SearchEntry(<< Dir1, "Organization", "p1" >>, provOrg) >> }

\* the arguments of updateFromDirectory and what the source returns
SourceInputs ==
    [ entries       : UNION { [ 1..n -> SourcePool ] : n \in 1..MaxEntries },
      orgEntries    : SourceOrganizations,
      sourceBaseURL : { Dir1, BadURL } ]

InitSource ==
    /\ input \in SourceInputs
    /\ output = [ deduplicated |-> << >>, tx |-> << >>, report |-> ZeroReport,
                  txResult |-> << >>, err |-> "" ]
    /\ pc = "ready"
    /\ config = << >>
    /\ administrationDirectories = << >>
    /\ directoryResourceTypes = << >>
    /\ lastUpdateTimes = << >>
    /\ stateFile = << >>
    /\ updateMux = 0
    /\ run = << >>
    /\ sync = << >>
    /\ runs = 0
    /\ prevFirst = << >>

\* the tree updateFromDirectory validates against (no authoritative URA)
sourceTree == filterByAuthoritativeUra(createOrganizationTree(input.orgEntries), "")

\* updateFromDirectory from the deduplication to the empty-transaction return
BuildFromPull ==
    /\ pc = "ready"
    /\ \E deduplicatedEntries \in deduplicateHistoryEntries(input.entries) :
          LET built == buildLoop(deduplicatedEntries, << >>, ZeroReport, ConfiguredResourceTypes,
                                 sourceTree, healthcareServicesOf(input.entries), FALSE,
                                 input.sourceBaseURL)
          IN  /\ output' = [ output EXCEPT !.deduplicated = deduplicatedEntries,
                                           !.tx = built.tx, !.report = built.report ]
              /\ pc' = IF Len(built.tx) = 0 THEN "returned" ELSE "built"
    /\ UNCHANGED << config, administrationDirectories, directoryResourceTypes, lastUpdateTimes,
                    stateFile, updateMux, run, sync, runs, prevFirst, input >>

\* the transaction is posted and the response entries are counted
SubmitAndCount ==
    /\ pc = "built"
    /\ \/ /\ output' = [ output EXCEPT !.report = ZeroReport,
                                       !.err = "failed to apply mCSD update to query directory" ]
          /\ pc' = "failed"
       \/ \E txResult \in [ DOMAIN output.tx -> TxStatuses ] :
             /\ output' = [ output EXCEPT !.txResult = txResult,
                                          !.report = countResponses(txResult, @) ]
             /\ pc' = "counted"
    /\ UNCHANGED << config, administrationDirectories, directoryResourceTypes, lastUpdateTimes,
                    stateFile, updateMux, run, sync, runs, prevFirst, input >>

NextSource == BuildFromPull \/ SubmitAndCount

SpecSource == InitSource /\ [][NextSource]_vars

\* the ID of the resource an entry is about: the id of its body, or the ID segment of
\* the request URL of a DELETE ("" = none)
resourceIDOf(entry) ==
    IF entry.hasResource THEN entry.resource.id
    ELSE IF isDelete(entry) /\ Len(entry.url) >= 2 THEN entry.url[2] ELSE ""

\* the positions of the pulled entries that carry the resource ID
pulledPositionsOf(id) == { i \in DOMAIN input.entries : resourceIDOf(input.entries[i]) = id }

\* the resource IDs of the pulled entries
pulledIDs == { resourceIDOf(input.entries[i]) : i \in DOMAIN input.entries } \ { "" }

\* the resource types of the pulled entries
PulledTypes == { "Organization", "Endpoint", "Practitioner" }

\* the request URLs under which a resource with the ID may be written or deleted
conditionalURLsOf(id) ==
    { conditionalURL(t, BuildSourceURL(input.sourceBaseURL, << t, id >>)) : t \in PulledTypes }

\* C24: when the pulled history of a non-discoverable source (a registered base URL)
\* lists for one resource ID a DELETE first, followed by older versions with bodies,
\* the transaction holds exactly one entry for that ID, the conditional DELETE, and no
\* PUT, so nothing of that ID is written; every 204 response is counted as deleted.
C24_DeleteFirstWins ==
    ( pc \in { "built", "returned", "counted" } /\ validSourceBase(input.sourceBaseURL) ) =>
        \A id \in pulledIDs :
            LET first == Min(pulledPositionsOf(id))
                delete == input.entries[first]
            IN  ( /\ isDelete(delete)
                  /\ \E i \in pulledPositionsOf(id) : i > first /\ input.entries[i].hasResource )
                =>
                LET expected == TxDelete(delete.url[1],
                                    BuildSourceURL(input.sourceBaseURL, << delete.url[1], id >>))
                    forID == { j \in DOMAIN output.tx : output.tx[j].url \in conditionalURLsOf(id) }
                IN  /\ Cardinality(forID) = 1
                    /\ \A j \in forID : output.tx[j] = expected
                    /\ \A j \in DOMAIN output.tx :
                           output.tx[j].method = "PUT" => output.tx[j].url \notin conditionalURLsOf(id)
                    /\ pc = "counted" =>
                           output.report.CountDeleted
                               = Cardinality({ j \in DOMAIN output.txResult : output.txResult[j] = "204" })

\* the history DELETE p2, PUT p2 was synced: one DELETE submitted, answered 204, deleted = 1
C24_DeleteSubmittedAndCounted ==
    /\ pc = "counted"
    /\ input.entries = << childDeleted, Put(Dir1, provChild) >>
    /\ output.tx = << TxDelete("Organization", BuildSourceURL(Dir1, << "Organization", "p2" >>)) >>
    /\ output.txResult = << "204" >>
    /\ output.report.CountDeleted = 1
    /\ output.report.CountCreated = 0

\* s without its k-th element
dropAt(s, k) == SubSeq(s, 1, k - 1) \o SubSeq(s, k + 1, Len(s))

\* the entry on its own: what buildUpdateTransaction appends to an empty transaction,
\* and the warning of the loop ("" = none)
aloneOf(entry) ==
    IF ~entry.hasRequest
    THEN [ tx |-> << >>, err |-> "Skipping entry with no request" ]
    ELSE buildUpdateTransaction(<< >>, entry, ConfiguredResourceTypes, sourceTree,
                                healthcareServicesOf(input.entries), FALSE, input.sourceBaseURL)

\* the deduplicated entry cannot be processed
cannotBeProcessed(k) == aloneOf(output.deduplicated[k]).err # ""

\* the loop of updateFromDirectory over the given entries of this sync
loopOver(entries) ==
    buildLoop(entries, << >>, ZeroReport, ConfiguredResourceTypes, sourceTree,
              healthcareServicesOf(input.entries), FALSE, input.sourceBaseURL)

RECURSIVE transactionOfProcessable(_)
\* what the entries that can be processed append, one after the other
transactionOfProcessable(entries) ==
    IF entries = << >> THEN << >>
    ELSE ( IF aloneOf(Head(entries)).err # "" THEN << >> ELSE aloneOf(Head(entries)).tx )
         \o transactionOfProcessable(Tail(entries))

\* C26: an entry that cannot be processed (missing request or fullUrl, disallowed
\* resource type, failed validation, invalid source URL) adds exactly one warning to
\* the report of the source and leaves the transaction as it was before the entry was
\* handled; the sync goes on, and the transaction and the other warnings are those of
\* the deduplicated entries without the failing one.
C26_FailingEntryOnlyWarns ==
    pc \in { "built", "returned" } =>
        LET entries == output.deduplicated
        IN  /\ \A k \in DOMAIN entries :
                 cannotBeProcessed(k) =>
                   LET before == loopOver(SubSeq(entries, 1, k - 1))
                       after == loopOver(SubSeq(entries, 1, k))
                       absent == loopOver(dropAt(entries, k))
                   IN  /\ after.tx = before.tx
                       /\ after.report.Warnings.items
                            = Append(before.report.Warnings.items, aloneOf(entries[k]).err)
                       /\ after.report = [ before.report EXCEPT !.Warnings = after.report.Warnings ]
                       /\ output.tx = absent.tx
                       /\ dropAt(output.report.Warnings.items,
                                 Len(after.report.Warnings.items))
                            = absent.report.Warnings.items
            /\ output.tx = transactionOfProcessable(entries)
            /\ Len(output.report.Warnings.items)
                 = Cardinality({ k \in DOMAIN entries : cannotBeProcessed(k) })

\* a resource of a disallowed type and an orphan were each skipped with one warning,
\* and the organization after them was submitted
C26_TwoSkippedOneSubmitted ==
    /\ pc = "built"
    /\ input.sourceBaseURL = Dir1
    /\ output.deduplicated = << practitionerP2, Put(Dir1, provOrphan), Put(Dir1, provOrg) >>
    /\ cannotBeProcessed(1)
    /\ cannotBeProcessed(2)
    /\ ~cannotBeProcessed(3)
    /\ Len(output.tx) = 1
    /\ output.tx[1].method = "PUT"
    /\ Len(output.report.Warnings.items) = 2

-----------------------------------------------------------------------------
(* Two syncs of a provider directory that changes in between, the clocks apart (SpecCursor) *)

\* the instant, on the clock of the source, at which it answers the first query of a
\* sync started at queryStartTime on the local clock
answeredAt(i) == i.start + i.skew

\* the directory when the first sync starts, the local time of the first query, the
\* clock of the source minus the local clock, whether the source stamps its bundles,
\* and the change made at the source once the first query is answered
CursorInputs ==
    { i \in [ source              : [ orgTime : 0..(MaxTime + clockSkewBuffer + 1),
                                      epTime  : 0..(MaxTime + clockSkewBuffer + 1) ],
              start               : 1..MaxTime,
              skew                : -(clockSkewBuffer + 1)..(clockSkewBuffer + 1),
              stamped             : BOOLEAN,
              SnapshotModeSupport : BOOLEAN,
              changed             : { "Organization", "Endpoint" },
              delay               : 0..1 ] :
        /\ answeredAt(i) >= 1
        /\ i.source.orgTime <= answeredAt(i)
        /\ i.source.epTime <= answeredAt(i) }

InitCursor ==
    /\ input \in CursorInputs
    /\ output = [ source |-> input.source, cursor |-> NoCursor, store |-> {},
                  first |-> ZeroReport, submitted |-> FALSE, pulled |-> << >> ]
    /\ pc = "ready"
    /\ config = << >>
    /\ administrationDirectories = << >>
    /\ directoryResourceTypes = << >>
    /\ lastUpdateTimes = << >>
    /\ stateFile = << >>
    /\ updateMux = 0
    /\ run = << >>
    /\ sync = << >>
    /\ runs = 0
    /\ prevFirst = << >>

\* the first update(): no cursor yet; a stamped bundle carries the source's time
FirstSync ==
    /\ pc = "ready"
    /\ \E r \in syncAt(output.source, NoCursor, {}, input.start,
                       IF input.stamped THEN answeredAt(input) ELSE 0,
                       input.SnapshotModeSupport) :
          output' = [ output EXCEPT !.cursor = r.cursor, !.store = r.store, !.first = r.report,
                                    !.submitted = r.store # {} ]
    /\ pc' = "synced"
    /\ UNCHANGED << config, administrationDirectories, directoryResourceTypes, lastUpdateTimes,
                    stateFile, updateMux, run, sync, runs, prevFirst, input >>

\* the time of the change at the source
changedAt == answeredAt(input) + input.delay

\* a resource of the directory is written once the first query has been answered
ChangeAtSource ==
    /\ pc = "synced"
    /\ output' = [ output EXCEPT
                     !.source = IF input.changed = "Organization"
                                THEN [ @ EXCEPT !.orgTime = changedAt ]
                                ELSE [ @ EXCEPT !.epTime = changedAt ] ]
    /\ pc' = "changed"
    /\ UNCHANGED << config, administrationDirectories, directoryResourceTypes, lastUpdateTimes,
                    stateFile, updateMux, run, sync, runs, prevFirst, input >>

\* the next update(), later
NextSync ==
    /\ pc = "changed"
    /\ \E r \in syncAt(output.source, output.cursor, output.store,
                       changedAt + 2 * clockSkewBuffer + 2, 0, input.SnapshotModeSupport) :
          output' = [ output EXCEPT !.pulled = r.pulled ]
    /\ pc' = "again"
    /\ UNCHANGED << config, administrationDirectories, directoryResourceTypes, lastUpdateTimes,
                    stateFile, updateMux, run, sync, runs, prevFirst, input >>

NextCursor == FirstSync \/ ChangeAtSource \/ NextSync

SpecCursor == InitCursor /\ [][NextCursor]_vars

\* the clocks agree within the buffer
ClocksAgree == input.skew >= -clockSkewBuffer /\ input.skew <= clockSkewBuffer

\* the cursor the claim names: the first bundle's stamp, else local start minus 2 s
NamedCursor ==
    [ present |-> TRUE,
      value   |-> IF input.stamped THEN answeredAt(input) ELSE input.start - clockSkewBuffer ]

\* the version written by the change is among the pulled entries
ChangePulled ==
    \E j \in DOMAIN output.pulled :
        /\ output.pulled[j].hasResource
        /\ output.pulled[j].resource.resourceType = input.changed
        /\ output.pulled[j].resource.meta.lastUpdated = changedAt

CursorNeverSkips ==
    /\ ( pc \in { "synced", "changed", "again" } /\ output.submitted ) =>
           output.cursor = NamedCursor
    /\ ( pc \in { "synced", "changed", "again" } /\ ClocksAgree /\ output.cursor.present ) =>
           output.cursor.value <= answeredAt(input)
    /\ ( pc = "again" /\ ClocksAgree ) => ChangePulled

\* without the agreement of the clocks a change can be missed
ChangeAlwaysPulled == pc = "again" => ChangePulled

-----------------------------------------------------------------------------
(* Properties of discovery: what a sync may do to the registry (SpecDiscovery) *)

\* the URAs of the organizations of the root directory
ParentURAs == UNION { Range(o.ura) : o \in DiscoveryParents }

\* the registry entry is a configured root
ConfiguredRoot(dir) ==
    dir.discover /\ dir.fhirBaseURL \in Range(config.AdministrationDirectories)

\* a step of the sync of a discovered directory leaves the registry as it is
DiscoveredSyncKeepsRegistry ==
    \A c \in Callers :
        ( pc[c] \in SyncSteps /\ ~sync[c].dir.discover /\ pc'[c] # pc[c] ) =>
            administrationDirectories' = administrationDirectories

\* C27 as stated: every registry entry created by discovery has discover=false, a
\* non-empty sourceEntryURL and the authoritative URA of a parent organization; only
\* the sync of an entry with discover=true changes the registry, the sync of a
\* discovered directory never does.
C27_DiscoveryDoesNotPropagate ==
    [][ /\ \A j \in DOMAIN administrationDirectories' :
             LET dir == administrationDirectories'[j]
             IN  \/ ConfiguredRoot(dir)
                 \/ /\ ~dir.discover
                    /\ dir.sourceURL # << >>
                    /\ dir.sourceURL # EmptyFullUrl
                    /\ dir.authoritativeUra \in ParentURAs
        /\ DiscoveredSyncKeepsRegistry ]_vars

\* what holds of C27: as stated, but for the sourceEntryURL, which is the fullUrl of
\* the Endpoint entry whatever it holds, the empty string included
DiscoveredEntriesAreLeaves ==
    [][ /\ \A j \in DOMAIN administrationDirectories' :
             LET dir == administrationDirectories'[j]
             IN  \/ ConfiguredRoot(dir)
                 \/ /\ ~dir.discover
                    /\ dir.sourceURL \in { U7, U8, EmptyFullUrl }
                    /\ dir.authoritativeUra \in ParentURAs
        /\ DiscoveredSyncKeepsRegistry ]_vars

-----------------------------------------------------------------------------
(* Register, and the discovery over one pull of a root directory (SpecRegister) *)

\* URLs that are not absolute http(s) URLs with a host
InvalidURLs == { BadURL, NoHostURL, RelativeURL }

\* configurations whose exclusion list holds invalid URLs as well
RegisterConfigurations ==
    [ AdministrationDirectories : { << RootC >> },
      ExcludeAdminDirectories   : { << >>, << BadURL >>, << Dir2Slash, RelativeURL, NoHostURL >> },
      DirectoryResourceTypes    : { << "Organization" >> },
      StateFile                 : { FALSE },
      SnapshotModeSupport       : { FALSE } ]

\* mCSD directory Endpoints the Endpoint history of the root may hold
RegisterPool ==
    { Put(RootC, rootEp7), Put(RootC, rootEp8), Put(RootC, rootEp8Bad),
      Put(RootC, rootEp7Relative) }

\* the state New returns, and the entries the next sync of the root pulls
InitRegister ==
    /\ config \in RegisterConfigurations
    /\ administrationDirectories =
           registerRoots(config.AdministrationDirectories, config.ExcludeAdminDirectories, << >>)
    /\ directoryResourceTypes = config.DirectoryResourceTypes
    /\ input \in UNION { [ 1..n -> RegisterPool ] : n \in 1..MaxEntries }
    /\ output = [ err |-> "", report |-> ZeroReport, tx |-> << >> ]
    /\ pc = "ready"
    /\ lastUpdateTimes = << >>
    /\ stateFile = << >>
    /\ updateMux = 0
    /\ run = << >>
    /\ sync = << >>
    /\ runs = 0
    /\ prevFirst = << >>

\* one call of registerAdministrationDirectory
RegisterDirectory ==
    /\ pc = "ready"
    /\ \E u \in RegisterURLs \cup InvalidURLs, discover \in BOOLEAN,
          sourceURL \in RegisterSources, authoritativeUra \in RegisterURAs :
          LET r == registerAdministrationDirectory(administrationDirectories,
                       config.ExcludeAdminDirectories, u, directoryResourceTypes,
                       discover, sourceURL, authoritativeUra)
          IN  /\ administrationDirectories' = r.dirs
              /\ output' = [ output EXCEPT !.err = r.err ]
    /\ pc' = "registered"
    /\ UNCHANGED << config, directoryResourceTypes, lastUpdateTimes, stateFile, updateMux,
                    run, sync, runs, prevFirst, input >>

\* updateFromDirectory of the root from the deduplication to the discovery
DiscoverFromPull ==
    /\ pc \in { "ready", "registered" }
    /\ \E deduplicatedEntries \in deduplicateHistoryEntries(input),
          orgEntries \in OrganizationSearches([ fhirBaseURL |-> RootC ]) :
          LET dirs1 == processEndpointDeletes(administrationDirectories, deduplicatedEntries)
              parentOrganizationsMap ==
                  filterByAuthoritativeUra(createOrganizationTree(orgEntries), "")
              built == buildLoop(deduplicatedEntries, << >>, ZeroReport,
                                 ConfiguredResourceTypes, parentOrganizationsMap,
                                 healthcareServicesOf(input), TRUE, RootC)
          IN  \E d \in discoverAndRegisterEndpoints(dirs1, config.ExcludeAdminDirectories,
                           directoryResourceTypes, input, parentOrganizationsMap,
                           built.report) :
                 /\ administrationDirectories' = d.dirs
                 /\ output' = [ output EXCEPT !.report = d.report, !.tx = built.tx ]
    /\ pc' = "discovered"
    /\ UNCHANGED << config, directoryResourceTypes, lastUpdateTimes, stateFile, updateMux,
                    run, sync, runs, prevFirst, input >>

NextRegister == RegisterDirectory \/ DiscoverFromPull

SpecRegister == InitRegister /\ [][NextRegister]_vars

\* the Endpoint a parent organization discovers under a fullUrl: the last pulled entry
\* with that fullUrl whose resource the organization lists (0 = none)
discoveredAt(o, fullUrl) ==
    LET listed == { k \in DOMAIN input :
                      /\ input[k].hasResource
                      /\ input[k].resource.id # ""
                      /\ input[k].fullUrl = fullUrl
                      /\ listsEndpoint(o, input[k].resource.id) }
    IN  IF listed = {} THEN 0 ELSE Max(listed)

\* the Register calls of discovery: one per parent organization and fullUrl of a
\* pulled mCSD directory Endpoint it lists
DiscoveryCalls ==
    { call \in DiscoveryParents \X { input[k].fullUrl : k \in DOMAIN input } :
        /\ discoveredAt(call[1], call[2]) # 0
        /\ input[discoveredAt(call[1], call[2])].resource.payloadMcsd }

addressOf(call) == input[discoveredAt(call[1], call[2])].resource.address

RegistrationWarnings(report) ==
    SelectSeq(report.Warnings.items,
              LAMBDA w : w = "failed to register discovered mCSD Directory")

\* C28: Register of a URL that is not an absolute http or https URL with a host
\* returns an error and leaves the registry unchanged, also when the URL is in the
\* exclusion list; when discovery meets such an address in a pulled Endpoint, each
\* failed Register call becomes one warning on the report of the root, nothing is
\* registered for it, and the sync goes on: the other discovered directories are
\* registered and the transaction is built from all deduplicated entries.
C28_InvalidURLRejected ==
    [][ /\ \A u \in InvalidURLs, d \in BOOLEAN, src \in RegisterSources, ura \in RegisterURAs :
             Register(u, d, src, ura)
                 = [ dirs |-> administrationDirectories, err |-> "invalid FHIR base URL" ]
        /\ ( pc' = "registered" /\ output'.err # "" ) =>
               administrationDirectories' = administrationDirectories
        /\ \A j \in DOMAIN administrationDirectories' :
               administrationDirectories'[j].fhirBaseURL \notin InvalidURLs
        /\ pc' = "discovered" =>
               /\ Len(RegistrationWarnings(output'.report))
                    = Cardinality({ call \in DiscoveryCalls : addressOf(call) \in InvalidURLs })
               /\ output'.report.Warnings.items = RegistrationWarnings(output'.report)
               /\ output'.report.Errors.items = << >>
               /\ \A call \in DiscoveryCalls :
                      ( addressOf(call) \notin InvalidURLs /\ ~Excluded(addressOf(call)) ) =>
                          \E j \in DOMAIN administrationDirectories' :
                              /\ administrationDirectories'[j].fhirBaseURL = addressOf(call)
                              /\ administrationDirectories'[j].authoritativeUra = call[1].ura[1]
               /\ Len(output'.tx)
                    = Cardinality({ input[k].resource.id : k \in DOMAIN input }) ]_vars

\* the root listed an mCSD directory Endpoint with the address file:///etc/passwd, which
\* the exclusion list names, next to a valid one: one warning, the valid directory
\* registered, both Endpoints in the transaction
C28_BadAddressWarnedSyncGoesOn ==
    /\ pc = "discovered"
    /\ config.ExcludeAdminDirectories = << BadURL >>
    /\ input = << Put(RootC, rootEp7), Put(RootC, rootEp8Bad) >>
    /\ Len(RegistrationWarnings(output.report)) = 1
    /\ output.report.Errors.items = << >>
    /\ Len(output.tx) = 2
    /\ Len(administrationDirectories) = 3
    /\ \A j \in DOMAIN administrationDirectories :
          administrationDirectories[j].fhirBaseURL \in { RootC, Dir2 }

-----------------------------------------------------------------------------
(* The organization tree of a source (SpecTree) *)

TreeIDs ==
    << "o1", "o2", "o3", "o4", "o5", "o6", "o7", "o8", "o9", "o10", "o11", "o12" >>

\* the URA identifiers an organization may carry
TreeURAs == { << >>, << "1" >>, << "2" >> }

\* partOf of an organization among n: absent, one of them, or one that is missing
TreeParents(n) ==
    { << >>, << "Organization", "gone" >> } \cup { << "Organization", TreeIDs[j] >> : j \in 1..n }

\* the organizations of a source with n organizations: identifiers and partOf of each
TreeShapes(n) == [ 1..n -> [ ura : TreeURAs, partOf : TreeParents(n) ] ]

\* the answer of the Organization search of such a source
orgEntriesOf(shape) ==
    [ j \in DOMAIN shape |->
        SearchEntry(<< Dir1, "Organization", TreeIDs[j] >>,
                    [ Resource("Organization", TreeIDs[j], 1) EXCEPT
                        !.ura = shape[j].ura, !.partOf = shape[j].partOf ]) ]

\* chains about as long as the walk goes: o1 carries a URA, each further organization is
\* part of the one before it, and o1 is part of nothing or of the last one (a cycle)
LongChains ==
    { [ j \in 1..n |->
          [ ura    |-> IF j = 1 THEN << "1" >> ELSE << >>,
            partOf |-> IF j > 1 THEN << "Organization", TreeIDs[j - 1] >>
                       ELSE IF closed THEN << "Organization", TreeIDs[n] >> ELSE << >> ] ] :
      n \in { maxDepth + 1, maxDepth + 2 }, closed \in BOOLEAN }

\* the authoritative URA the source is registered with
TreeAuthorities == { "", "1" }

InitTree ==
    /\ \/ \E n \in 1..MaxEntries :
             input \in [ shape : TreeShapes(n), authoritativeUra : TreeAuthorities ]
       \/ input \in [ shape : LongChains, authoritativeUra : TreeAuthorities ]
    /\ output = [ tree |-> {}, filtered |-> {} ]
    /\ pc = "ready"
    /\ config = << >>
    /\ administrationDirectories = << >>
    /\ directoryResourceTypes = << >>
    /\ lastUpdateTimes = << >>
    /\ stateFile = << >>
    /\ updateMux = 0
    /\ run = << >>
    /\ sync = << >>
    /\ runs = 0
    /\ prevFirst = << >>

\* ensureParentOrganizationsMap once the Organization search has answered
EnsureParentOrganizationsMap ==
    /\ pc = "ready"
    /\ LET tree == createOrganizationTree(orgEntriesOf(input.shape))
       IN  output' = [ tree |-> tree,
                       filtered |-> filterByAuthoritativeUra(tree, input.authoritativeUra) ]
    /\ pc' = "built"
    /\ UNCHANGED << config, administrationDirectories, directoryResourceTypes, lastUpdateTimes,
                    stateFile, updateMux, run, sync, runs, prevFirst, input >>

NextTree == EnsureParentOrganizationsMap

SpecTree == InitTree /\ [][NextTree]_vars

\* the organizations the source returned
TreeOrganizations == { orgEntriesOf(input.shape)[j].resource : j \in DOMAIN input.shape }

\* the organization partOf names, when the source returned it
parentsOf(o) == { p \in TreeOrganizations : o.partOf # << >> /\ p.id = Last(o.partOf) }

RECURSIVE chainReaches(_, _, _)
\* following partOf from o reaches target in at most fuel steps
chainReaches(o, target, fuel) ==
    /\ fuel > 0
    /\ \E p \in parentsOf(o) : p = target \/ chainReaches(p, target, fuel - 1)

\* o is under target: another organization whose partOf chain leads to target within
\* the ten steps the walk of the tree builder takes
Under(o, target) == o # target /\ chainReaches(o, target, 10)

\* the organizations of a tree: its roots and their members
InTree(tree) == UNION { { t.root } \cup t.linked : t \in tree }

\* C29 as stated: with a non-empty authoritative URA the filtered tree has at most one
\* root, that root carries the authoritative URA, and no organization under another
\* URA-bearing organization of the source is in the tree; with an empty authoritative
\* URA the tree is not filtered.
C29_OneRootOthersExcluded ==
    pc = "built" =>
        IF input.authoritativeUra # ""
        THEN /\ Cardinality(output.filtered) <= 1
             /\ \A t \in output.filtered : input.authoritativeUra \in Range(t.root.ura)
             /\ \A t \in output.filtered, o \in TreeOrganizations, other \in TreeOrganizations :
                    ( other # t.root /\ Len(other.ura) > 0 /\ Under(o, other) ) =>
                        o \notin InTree(output.filtered)
        ELSE output.filtered = output.tree

\* C29: with a non-empty authoritative URA the filtered tree has one root for each
\* organization of the source that carries the authoritative URA, and no other root;
\* the members of a root are the organizations under it, also those that are under
\* another URA-bearing organization on the way; an organization that is under no
\* remaining root and is none is not in the tree. With an empty authoritative URA the
\* tree is not filtered.
C29_RootsCarryAuthoritativeUra ==
    pc = "built" =>
        IF input.authoritativeUra # ""
        THEN /\ { t.root : t \in output.filtered }
                  = { o \in TreeOrganizations : input.authoritativeUra \in Range(o.ura) }
             /\ Cardinality(output.filtered) = Cardinality({ t.root : t \in output.filtered })
             /\ \A t \in output.filtered :
                    t.linked = { o \in TreeOrganizations : Under(o, t.root) }
             /\ output.filtered \subseteq output.tree
        ELSE output.filtered = output.tree

\* the source lists the organization of URA 1 and, apart from it, an organization of
\* URA 2 with a department: the filter dropped the second root and its department
C29_OtherRootFilteredOut ==
    /\ pc = "built"
    /\ input.authoritativeUra = "1"
    /\ Cardinality(output.tree) = 2
    /\ Cardinality(output.filtered) = 1
    /\ \E o \in TreeOrganizations :
          /\ o.ura = << >>
          /\ o \in InTree(output.tree)
          /\ o \notin InTree(output.filtered)

\* C30 as stated: each organization without a URA identifier is a member of the
\* membership set of at most one root of the tree createOrganizationTree produces.
C30_MemberOfAtMostOneRoot ==
    pc = "built" =>
        \A o \in TreeOrganizations :
            o.ura = << >> => Cardinality({ t \in output.tree : o \in t.linked }) <= 1

\* C30: in every tree createOrganizationTree produces, an organization without a URA
\* identifier is a member of the membership set of exactly the URA-bearing
\* organizations its partOf chain leads to; of at most one when no URA-bearing
\* organization on the chain is itself under a URA-bearing organization.
C30_MemberOfEveryRootOnChain ==
    pc = "built" =>
        \A o \in TreeOrganizations :
            o.ura = << >> =>
                LET above == { r \in TreeOrganizations : Len(r.ura) > 0 /\ Under(o, r) }
                IN  /\ { t.root : t \in { u \in output.tree : o \in u.linked } } = above
                    /\ Cardinality({ t \in output.tree : o \in t.linked }) = Cardinality(above)
                    /\ ( \A r, q \in above : ~Under(r, q) ) => Cardinality(above) <= 1

\* a department of an organization with a URA that is itself part of another
\* organization with a URA is a member of both
C30_DepartmentUnderNestedRoots ==
    /\ pc = "built"
    /\ Cardinality(output.tree) = 2
    /\ \E o \in TreeOrganizations :
          /\ o.ura = << >>
          /\ \A t \in output.tree : o \in t.linked

\* o lies on a partOf cycle
OnCycle(o) == chainReaches(o, o, Len(input.shape))

\* partOf of o names an organization the source did not return
MissingReferent(o) == o.partOf # << >> /\ parentsOf(o) = {}

\* the roots in whose membership set o is
RootsOf(o) == { t.root : t \in { u \in output.tree : o \in u.linked } }

\* C31 as stated: one root per organization with a URA identifier; O is a member of
\* root R iff O is not R and following partOf from O reaches R within 10 steps; and
\* organizations on a cycle, with a missing referent or beyond the depth limit are
\* members of no root.
C31_CycleMembersOfNoRoot ==
    pc = "built" =>
        /\ { t.root : t \in output.tree } = { o \in TreeOrganizations : Len(o.ura) > 0 }
        /\ Cardinality(output.tree) = Cardinality({ t.root : t \in output.tree })
        /\ \A t \in output.tree : t.linked = { o \in TreeOrganizations : Under(o, t.root) }
        /\ \A o \in TreeOrganizations :
               ( OnCycle(o) \/ MissingReferent(o) ) => RootsOf(o) = {}

\* C31: createOrganizationTree has one root per organization with a URA identifier; O
\* is a member of root R iff O is not R and following partOf from O reaches R within 10
\* steps through organizations of the input; so an organization whose chain meets a
\* missing referent, closes a cycle or passes the tenth step before it reaches R is no
\* member of R, while an organization on a cycle that holds R is a member of R.
C31_MembersReachRootWithinTenSteps ==
    pc = "built" =>
        /\ { t.root : t \in output.tree } = { o \in TreeOrganizations : Len(o.ura) > 0 }
        /\ Cardinality(output.tree) = Cardinality({ t.root : t \in output.tree })
        /\ \A t \in output.tree : t.linked = { o \in TreeOrganizations : Under(o, t.root) }
        /\ \A o \in TreeOrganizations :
               /\ MissingReferent(o) => RootsOf(o) = {}
               /\ OnCycle(o) => RootsOf(o) = { r \in TreeOrganizations :
                                                 /\ Len(r.ura) > 0 /\ r # o /\ OnCycle(r)
                                                 /\ Under(o, r) }

\* a chain of twelve organizations below the root: the eleventh is ten steps from the
\* root and a member, the twelfth is eleven steps away and not
C31_TenthStepMemberEleventhNot ==
    /\ pc = "built"
    /\ Len(input.shape) = 12
    /\ input.shape[1].partOf = << >>
    /\ \E t \in output.tree :
          /\ t.root.id = "o1"
          /\ { o.id : o \in t.linked }
               = { "o2", "o3", "o4", "o5", "o6", "o7", "o8", "o9", "o10", "o11" }

-----------------------------------------------------------------------------
(* One sync of a source whose roots may carry several URA identifiers (SpecRoots) *)

provOrgTwoUras == [ provOrg EXCEPT !.ura = << "1", "2" >> ]

\* what the source returns: the pulled entries, the answer of the Organization search,
\* the stamp of the first bundle; and the mode and the authoritative URA of the sync
RootsInputs(n) ==
    [ entries          : [ 1..n -> { Put(Dir1, provOrg), Put(Dir1, provChild), Put(Dir1, provEp) } ],
      orgEntries       : { << SearchEntry(<< Dir1, "Organization", "p1" >>, provOrg),
                              SearchEntry(<< Dir1, "Organization", "p2" >>, provChild) >>,
                           << SearchEntry(<< Dir1, "Organization", "p1" >>, provOrgTwoUras),
                              SearchEntry(<< Dir1, "Organization", "p2" >>, provChild) >> },
      firstSearchSet   : BundleStamps,
      useSnapshotMode  : BOOLEAN,
      authoritativeUra : { "", "1", "3" } ]

\* directoryKey of the sync
rootsKey == makeDirectoryKey(Dir1, input.authoritativeUra)

\* the sync has pulled its entries; the cursor is the one it began with
InitRoots ==
    /\ \E n \in 1..MaxEntries : input \in RootsInputs(n)
    /\ lastUpdateTimes \in { << >>, [ k \in { rootsKey } |-> "T1" ] }
    /\ output = [ tx |-> << >>, report |-> ZeroReport, err |-> "", submitted |-> FALSE ]
    /\ pc = "pulled"
    /\ config = << >>
    /\ administrationDirectories = << >>
    /\ directoryResourceTypes = << >>
    /\ stateFile = lastUpdateTimes
    /\ updateMux = 0
    /\ run = << >>
    /\ sync = << >>
    /\ runs = 0
    /\ prevFirst = << >>

\* the parent organization map of the sync
rootsTree ==
    filterByAuthoritativeUra(createOrganizationTree(input.orgEntries), input.authoritativeUra)

\* updateFromDirectory from the end of the pull to the empty-transaction return
ValidateAndBuild ==
    /\ pc = "pulled"
    /\ lastUpdateTimes' = afterSnapshot(lastUpdateTimes, input.useSnapshotMode, rootsKey)
    /\ \E deduplicatedEntries \in deduplicateHistoryEntries(input.entries) :
          IF ValidateParentOrganizations(rootsTree) # ""
          THEN /\ output' = [ output EXCEPT !.err = "parent organization validation failed" ]
               /\ pc' = "failed"
          ELSE LET built == buildLoop(deduplicatedEntries, << >>, ZeroReport,
                                      ConfiguredResourceTypes, rootsTree,
                                      healthcareServicesOf(input.entries), FALSE, Dir1)
               IN  /\ output' = [ output EXCEPT !.tx = built.tx, !.report = built.report ]
                   /\ pc' = IF Len(built.tx) = 0 THEN "returned" ELSE "built"
    /\ UNCHANGED << config, administrationDirectories, directoryResourceTypes, stateFile,
                    updateMux, run, sync, runs, prevFirst, input >>

\* the transaction is posted; once it is accepted the cursor is set and saved
SubmitAndStore ==
    /\ pc = "built"
    /\ \/ /\ output' = [ output EXCEPT !.report = ZeroReport,
                                       !.err = "failed to apply mCSD update to query directory" ]
          /\ pc' = "failed"
          /\ UNCHANGED << lastUpdateTimes, stateFile >>
       \/ \E txResult \in TxResponses(output.tx) :
             /\ output' = [ output EXCEPT !.report = countResponses(txResult, @),
                                          !.submitted = TRUE ]
             /\ lastUpdateTimes' = With(lastUpdateTimes, rootsKey, nextSyncTime(input.firstSearchSet))
             /\ stateFile' = lastUpdateTimes'
             /\ pc' = "stored"
    /\ UNCHANGED << config, administrationDirectories, directoryResourceTypes, updateMux, run,
                    sync, runs, prevFirst, input >>

NextRoots == ValidateAndBuild \/ SubmitAndStore

SpecRoots == InitRoots /\ [][NextRoots]_vars

\* a root of the filtered tree carries more than one URA identifier
RootWithSeveralURAs == \E t \in rootsTree : Len(t.root.ura) > 1

\* C32: when a root of the filtered tree carries more than one URA identifier, the sync
\* ends with a whole-source error with no entry validated (the report is empty), no
\* transaction is built or submitted, and no new cursor is stored: the cursor is the one
\* the sync began with, or absent after a snapshot pull; the saved state is unchanged.
C32_SeveralURAsFailWholeSource ==
    ( pc # "pulled" /\ RootWithSeveralURAs ) =>
        /\ pc = "failed"
        /\ output = [ tx |-> << >>, report |-> ZeroReport,
                      err |-> "parent organization validation failed", submitted |-> FALSE ]
        /\ lastUpdateTimes \in { stateFile, << >> }
        /\ lastUpdateTimes = << >> => ( stateFile = << >> \/ input.useSnapshotMode )

\* a delta pull of three entries from a source whose root has two URA identifiers has
\* ended with the error, the cursor still T1
C32_TwoURAsDeltaPullFailed ==
    /\ pc = "failed"
    /\ RootWithSeveralURAs
    /\ Len(input.entries) = 3
    /\ ~input.useSnapshotMode
    /\ input.authoritativeUra = "1"
    /\ lastUpdateTimes = [ k \in { rootsKey } |-> "T1" ]
    /\ output.err = "parent organization validation failed"

-----------------------------------------------------------------------------
(* One resource of a source: its PUT, its DELETE and a reference to it (SpecAddress) *)

\* the resource T/i, the base URL of its source, and the version in the URL of its
\* DELETE ("" = the URL is T/i, else T/i/_history/version)
AddressInputs ==
    [ target        : { provOrg, provEp },
      sourceBaseURL : { Dir1, Dir1Slash, Dir2 },
      version       : { "", "1", "2" } ]

InitAddress ==
    /\ input \in AddressInputs
    /\ output = [ put |-> "", source |-> "", delete |-> "", reference |-> << >>,
                  store |-> {} ]
    /\ pc = {}
    /\ config = << >>
    /\ administrationDirectories = << >>
    /\ directoryResourceTypes = << >>
    /\ lastUpdateTimes = << >>
    /\ stateFile = << >>
    /\ updateMux = 0
    /\ run = << >>
    /\ sync = << >>
    /\ runs = 0
    /\ prevFirst = << >>

\* the organization tree of the source
addressTree ==
    createOrganizationTree(<< SearchEntry(<< Dir1, "Organization", "p1" >>, provOrg),
                              SearchEntry(<< Dir1, "Organization", "p2" >>, provChild) >>)

\* buildUpdateTransaction for one entry of the source, into an empty transaction
builtFrom(entry) ==
    buildUpdateTransaction(<< >>, entry, defaultDirectoryResourceTypes, addressTree,
                           healthcareServicesOf(<< entry >>), FALSE, input.sourceBaseURL)

\* the resource of the source that refers to the target, and its reference after the rewrite
referrer == IF input.target = provOrg THEN provChild ELSE provOrg

referenceIn(res) == IF input.target = provOrg THEN res.partOf ELSE res.endpoint[1]

\* the source returns the target: a conditional PUT is built
PutTarget ==
    /\ "put" \notin pc
    /\ LET built == builtFrom(Put(input.sourceBaseURL, input.target))
       IN  /\ built.err = ""
           /\ output' = [ output EXCEPT !.put = built.tx[1].url,
                                        !.source = built.tx[1].resource.meta.source,
                                        !.store = @ \cup { built.tx[1].resource } ]
    /\ pc' = pc \cup { "put" }
    /\ UNCHANGED << config, administrationDirectories, directoryResourceTypes, lastUpdateTimes,
                    stateFile, updateMux, run, sync, runs, prevFirst, input >>

\* the source returns the deletion of the target: a conditional DELETE is built
DeleteTarget ==
    /\ "delete" \notin pc
    /\ LET T == input.target.resourceType
           i == input.target.id
           url == IF input.version = "" THEN << T, i >>
                  ELSE << T, i, "_history", input.version >>
           built == builtFrom(DeleteEntry(<< input.sourceBaseURL, T, i >>, url))
       IN  /\ built.err = ""
           /\ output' = [ output EXCEPT !.delete = built.tx[1].url ]
    /\ pc' = pc \cup { "delete" }
    /\ UNCHANGED << config, administrationDirectories, directoryResourceTypes, lastUpdateTimes,
                    stateFile, updateMux, run, sync, runs, prevFirst, input >>

\* the source returns a resource that refers to the target: the reference is rewritten
PutReferrer ==
    /\ "reference" \notin pc
    /\ LET built == builtFrom(Put(input.sourceBaseURL, referrer))
       IN  /\ built.err = ""
           /\ output' = [ output EXCEPT !.reference = referenceIn(built.tx[1].resource),
                                        !.store = @ \cup { built.tx[1].resource } ]
    /\ pc' = pc \cup { "reference" }
    /\ UNCHANGED << config, administrationDirectories, directoryResourceTypes, lastUpdateTimes,
                    stateFile, updateMux, run, sync, runs, prevFirst, input >>

NextAddress == PutTarget \/ DeleteTarget \/ PutReferrer

SpecAddress == InitAddress /\ [][NextAddress]_vars

\* the resources of the store a conditional URL T?_source=... addresses: those of type
\* T whose meta.source is the URL-decoded value of _source
addressed(url, store) ==
    { r \in store : r.resourceType \o "?_source=" \o QueryEscape(r.meta.source) = url }

\* C33: for one source base URL, type T and id i, the request URL of the conditional PUT
\* built for T/i, the request URL of the conditional DELETE built for T/i (with or
\* without /_history/v) and the value a reference "T/i" is rewritten to are one string,
\* T?_source= followed by the escaped meta.source the PUT sets; so among the resources put
\* from the source, the DELETE and the reference address the target and nothing else.
C33_PutDeleteReferenceSameAddress ==
    /\ ( "put" \in pc /\ "delete" \in pc ) => output.delete = output.put
    /\ ( "put" \in pc /\ "reference" \in pc ) => output.reference = << output.put >>
    /\ ( "delete" \in pc /\ "reference" \in pc ) => output.reference = << output.delete >>
    /\ "put" \in pc =>
          /\ output.put = input.target.resourceType \o "?_source=" \o QueryEscape(output.source)
          /\ output.source = BuildSourceURL(input.sourceBaseURL,
                                 << input.target.resourceType, input.target.id >>)
          /\ \A url \in { output.put } \cup ( IF "delete" \in pc THEN { output.delete } ELSE {} )
                       \cup ( IF "reference" \in pc THEN { output.reference[1] } ELSE {} ) :
                 /\ Cardinality(addressed(url, output.store)) = 1
                 /\ \A r \in addressed(url, output.store) :
                        /\ r.resourceType = input.target.resourceType
                        /\ r.meta.source = output.source

\* the Endpoint e5 has been put, deleted through a history URL and referred to by the
\* organization that lists it
C33_EndpointPutDeletedReferredTo ==
    /\ pc = { "put", "delete", "reference" }
    /\ input.target = provEp
    /\ input.version = "2"
    /\ output.reference = << output.delete >>
    /\ Cardinality(output.store) = 2

-----------------------------------------------------------------------------
(* The response bundle of an accepted transaction is counted (SpecCount) *)

\* the statuses of the response entries by their three-character prefix: created,
\* updated, deleted, two others, and "" for an entry without response part
ResponseStatuses == { "201", "200", "204", "400", "412", "" }

\* the report as the transaction builder left it: no counts, perhaps a warning
BuiltReports ==
    { ZeroReport, [ ZeroReport EXCEPT !.Warnings = AppendList(@, "entry #0: not allowed") ] }

InitCount ==
    /\ \E n \in 0..MaxEntries :
          input \in [ txResult : [ 1..n -> ResponseStatuses ], report : BuiltReports ]
    /\ output = ZeroReport
    /\ pc = "accepted"
    /\ config = << >>
    /\ administrationDirectories = << >>
    /\ directoryResourceTypes = << >>
    /\ lastUpdateTimes = << >>
    /\ stateFile = << >>
    /\ updateMux = 0
    /\ run = << >>
    /\ sync = << >>
    /\ runs = 0
    /\ prevFirst = << >>

\* the loop of updateFromDirectory over txResult.Entry
CountResult ==
    /\ pc = "accepted"
    /\ output' = countResponses(input.txResult, input.report)
    /\ pc' = "counted"
    /\ UNCHANGED << config, administrationDirectories, directoryResourceTypes, lastUpdateTimes,
                    stateFile, updateMux, run, sync, runs, prevFirst, input >>

NextCount == CountResult

SpecCount == InitCount /\ [][NextCount]_vars

\* the number of response entries whose status is in the set
entriesWith(statuses) ==
    Cardinality({ j \in DOMAIN input.txResult : input.txResult[j] \in statuses })

\* the warnings added while the response was read
warningsAdded == Len(output.Warnings.items) - Len(input.report.Warnings.items)

\* C35: each response entry changes the report in one way: status prefix 201 adds one
\* to created, 200 to updated, 204 to deleted, any other status or a missing response
\* adds one warning; so created + updated + deleted + the warnings added while reading
\* the response is the number of response entries.
C35_EachResponseCountedOnce ==
    pc = "counted" =>
        /\ output.CountCreated = entriesWith({ "201" })
        /\ output.CountUpdated = entriesWith({ "200" })
        /\ output.CountDeleted = entriesWith({ "204" })
        /\ warningsAdded = entriesWith(ResponseStatuses \ { "201", "200", "204" })
        /\ output.CountCreated + output.CountUpdated + output.CountDeleted + warningsAdded
               = Len(input.txResult)
        /\ output.Errors = input.report.Errors

\* a response of three entries, one updated, one refused and one without response part,
\* was counted on top of a warning of the builder
C35_UpdatedRefusedAndMissing ==
    /\ pc = "counted"
    /\ input.txResult = << "200", "412", "" >>
    /\ input.report # ZeroReport
    /\ output.CountUpdated = 1
    /\ Len(output.Warnings.items) = 3

-----------------------------------------------------------------------------
(* One search of a source, page by page (SpecPages) *)

\* the numbers of entries a page of the source may hold
PageSizes == { 1, 499, 500, 501 }

\* the entries of the pages up to page k, numbered in the order the source returns them
entriesUpTo(pages, k) ==
    LET RECURSIVE total(_)
        total(j) == IF j = 0 THEN 0 ELSE total(j - 1) + pages[j]
    IN  [ e \in 1..total(k) |-> e ]

\* the search: _history or current state, and the sizes of its pages
InitPages ==
    /\ \E n \in 1..MaxEntries :
          input \in [ pages : [ 1..n -> PageSizes ], includeHistory : BOOLEAN ]
    /\ output = [ page |-> 0, accumulated |-> << >>, entries |-> << >>, err |-> "",
                  syncErr |-> "" ]
    /\ pc = "paging"
    /\ config = << >>
    /\ administrationDirectories = << >>
    /\ directoryResourceTypes = << >>
    /\ lastUpdateTimes = << >>
    /\ stateFile = << >>
    /\ updateMux = 0
    /\ run = << >>
    /\ sync = << >>
    /\ runs = 0
    /\ prevFirst = << >>

\* queryFHIR: the next page is fetched and handed to the callback of Paginate; after the
\* last page, or when the callback fails, queryFHIR returns to updateFromDirectory
FetchPage ==
    /\ pc = "paging"
    /\ LET k == output.page + 1
           entries == entriesUpTo(input.pages, k)
       IN  IF Len(entries) >= maxUpdateEntries
           THEN /\ output' = [ output EXCEPT
                      !.page = k, !.accumulated = entries, !.entries = << >>,
                      !.err = IF input.includeHistory
                              THEN "pagination of _history search failed: too many entries"
                              ELSE "pagination of search failed: too many entries",
                      !.syncErr = IF input.includeHistory THEN "failed to query history"
                                  ELSE "failed to query" ]
                /\ pc' = "failed"
           ELSE /\ output' = [ output EXCEPT
                      !.page = k, !.accumulated = entries,
                      !.entries = IF k = Len(input.pages) THEN entries ELSE @ ]
                /\ pc' = IF k = Len(input.pages) THEN "returned" ELSE "paging"
    /\ UNCHANGED << config, administrationDirectories, directoryResourceTypes, lastUpdateTimes,
                    stateFile, updateMux, run, sync, runs, prevFirst, input >>

NextPages == FetchPage

SpecPages == InitPages /\ [][NextPages]_vars

\* all entries the pages of the search hold together
allEntries == entriesUpTo(input.pages, Len(input.pages))

\* C36 as stated: a search whose pages together hold n entries returns all n entries
\* when n is at most 1000 and fails only when n exceeds 1000; when it fails no entries
\* are returned and the sync ends with a whole-source error.
C36_FailsOnlyAbove1000 ==
    pc # "paging" =>
        /\ Len(allEntries) <= 1000 => ( pc = "returned" /\ output.entries = allEntries )
        /\ pc = "failed" =>
               /\ Len(allEntries) > 1000
               /\ output.entries = << >>
               /\ output.syncErr # ""

\* what the code does: the search returns all n entries when n is below 1000 and fails
\* when n is 1000 or more, returning no entries and ending the sync with an error
SearchFailsFrom1000 ==
    pc # "paging" =>
        /\ Len(allEntries) < maxUpdateEntries =>
               ( pc = "returned" /\ output.entries = allEntries /\ output.err = "" )
        /\ Len(allEntries) >= maxUpdateEntries =>
               ( pc = "failed" /\ output.entries = << >> /\ output.err # ""
                 /\ output.syncErr # "" )

-----------------------------------------------------------------------------
(* Syncs of two provider directories into one query directory (SpecIsolation) *)

\* what a provider directory may return: its organization with URA 1, departments of
\* it (one with an id that holds slashes), and the deletion of a department
department(id, name) ==
    [ Resource("Organization", id, 1) EXCEPT !.partOf = << "Organization", "p1" >>,
                                             !.name = name ]

IsolationPool(base) ==
    { Put(base, provOrg),
      Put(base, department("y", "Department")),
      Put(base, department("p1/Organization/y", "Other")),
      DeleteEntry(<< base, "Organization", "y" >>, << "Organization", "y" >>),
      DeleteEntry(<< base, "Organization", "y" >>, << "Organization", "y", "_history", "3" >>) }

\* the base URL of the second directory: another host, or a path under the first
InitIsolation ==
    /\ input \in [ other : { Dir2, NestedDir } ]
    /\ output = [ store |-> {}, source |-> "", tx |-> << >> ]
    /\ pc = 0
    /\ config = << >>
    /\ administrationDirectories = << >>
    /\ directoryResourceTypes = << >>
    /\ lastUpdateTimes = << >>
    /\ stateFile = << >>
    /\ updateMux = 0
    /\ run = << >>
    /\ sync = << >>
    /\ runs = 0
    /\ prevFirst = << >>

\* the query directory applies one entry of a transaction: a conditional PUT replaces
\* the resource of that type with that meta.source or creates it, a conditional DELETE
\* removes it; writer is the base URL of the sync the resource was last written by
applyEntry(store, e, writer) ==
    LET matches == { r \in store :
                       e.url = conditionalURL(r.body.resourceType, r.body.meta.source) }
    IN  IF e.method = "DELETE" THEN store \ matches
        ELSE ( store \ matches ) \cup { [ body |-> e.resource, writer |-> writer ] }

\* one sync of a directory that returns one entry: the transaction is built and applied
SyncDirectory ==
    /\ pc < MaxEntries
    /\ \E base \in { Dir1, input.other } :
          \E entry \in IsolationPool(base) :
             LET tree == createOrganizationTree(
                             << SearchEntry(<< base, "Organization", "p1" >>, provOrg) >>)
                 built == buildUpdateTransaction(<< >>, entry, defaultDirectoryResourceTypes,
                              tree, healthcareServicesOf(<< entry >>), FALSE, base)
             IN  /\ built.err = ""
                 /\ output' = [ store  |-> applyEntry(output.store, built.tx[1], base),
                                source |-> base,
                                tx     |-> built.tx ]
    /\ pc' = pc + 1
    /\ UNCHANGED << config, administrationDirectories, directoryResourceTypes, lastUpdateTimes,
                    stateFile, updateMux, run, sync, runs, prevFirst, input >>

NextIsolation == SyncDirectory

SpecIsolation == InitIsolation /\ [][NextIsolation]_vars

\* the resources of the store last written by a sync of another directory
writtenByOthers(store, base) == { r \in store : r.writer # base }

\* the _source value of the entry has the form base/{ResourceType}/{id}
addressesOwnSource(e, entryIn, base) ==
    \E T \in Range(defaultDirectoryResourceTypes) :
       \E id \in { entryIn.resource.id } \cup Range(entryIn.url) :
          e.url = conditionalURL(T, BuildSourceURL(base, << T, id >>))

\* C37 as stated: every entry of the transaction built in a sync of the directory with
\* base URL B addresses a _source value B/{ResourceType}/{id}, and no sync of that
\* directory creates, overwrites or deletes a resource of the query directory that was
\* written from a different base URL, whatever the directory returns.
C37_SyncTouchesOwnResourcesOnly ==
    [][ /\ \A j \in DOMAIN output'.tx :
              \E entry \in IsolationPool(output'.source) :
                  addressesOwnSource(output'.tx[j], entry, output'.source)
        /\ writtenByOthers(output.store, output'.source) \subseteq output'.store ]_vars

\* what holds: every entry addresses a _source value B/{ResourceType}/{id}
EntriesAddressOwnBase ==
    \A j \in DOMAIN output.tx :
        \E entry \in IsolationPool(output.source) :
            addressesOwnSource(output.tx[j], entry, output.source)

\* what holds: a sync leaves the resources written from another base URL alone when
\* that base URL is not a path under its own
OtherHostUntouched ==
    [][ input.other = Dir2 =>
            writtenByOthers(output.store, output'.source) \subseteq output'.store ]_vars

-----------------------------------------------------------------------------
(* The histories of two resource types of one directory, accumulated (SpecTypes) *)

\* the organization p1 lists the Endpoint whose id is p1 as well
orgShared == [ provOrg EXCEPT !.endpoint = << << "Endpoint", "p1" >> >> ]
epShared == [ provEp EXCEPT !.id = "p1" ]

\* the versions the _history of a resource type may hold
TypeHistory(resourceType) ==
    IF resourceType = "Organization"
    THEN { Put(Dir1, orgShared), Put(Dir1, provChild) }
    ELSE { Put(Dir1, epShared), Put(Dir1, [ epShared EXCEPT !.meta.lastUpdated = 2 ]),
           DeleteEntry(<< Dir1, "Endpoint", "p1" >>, << "Endpoint", "p1" >>) }

\* entries as updateFromDirectory accumulates them: the Organization history first,
\* the Endpoint history after it
InitTypes ==
    /\ \E n \in 0..MaxEntries - 1, m \in 1..MaxEntries :
          /\ n + m <= MaxEntries
          /\ \E orgs \in [ 1..n -> TypeHistory("Organization") ],
                eps \in [ 1..m -> TypeHistory("Endpoint") ] :
                input = [ entries |-> orgs \o eps ]
    /\ output = [ deduplicated |-> << >>, tx |-> << >>, report |-> ZeroReport ]
    /\ pc = "pulled"
    /\ config = << >>
    /\ administrationDirectories = << >>
    /\ directoryResourceTypes = << >>
    /\ lastUpdateTimes = << >>
    /\ stateFile = << >>
    /\ updateMux = 0
    /\ run = << >>
    /\ sync = << >>
    /\ runs = 0
    /\ prevFirst = << >>

\* deduplicatedEntries := deduplicateHistoryEntries(entries)
DeduplicateTypes ==
    /\ pc = "pulled"
    /\ \E deduplicatedEntries \in deduplicateHistoryEntries(input.entries) :
          output' = [ output EXCEPT !.deduplicated = deduplicatedEntries ]
    /\ pc' = "deduplicated"
    /\ UNCHANGED << config, administrationDirectories, directoryResourceTypes, lastUpdateTimes,
                    stateFile, updateMux, run, sync, runs, prevFirst, input >>

\* the loop over deduplicatedEntries: each entry is validated and built
ValidateTypes ==
    /\ pc = "deduplicated"
    /\ LET tree == createOrganizationTree(
                       << SearchEntry(<< Dir1, "Organization", "p1" >>, orgShared),
                          SearchEntry(<< Dir1, "Organization", "p2" >>, provChild) >>)
           built == buildLoop(output.deduplicated, << >>, ZeroReport, ConfiguredResourceTypes,
                              tree, healthcareServicesOf(input.entries), FALSE, Dir1)
       IN  output' = [ output EXCEPT !.tx = built.tx, !.report = built.report ]
    /\ pc' = "built"
    /\ UNCHANGED << config, administrationDirectories, directoryResourceTypes, lastUpdateTimes,
                    stateFile, updateMux, run, sync, runs, prevFirst, input >>

NextTypes == DeduplicateTypes \/ ValidateTypes

SpecTypes == InitTypes /\ [][NextTypes]_vars

\* the resource type and id an entry is about
aboutOf(entry) ==
    IF entry.hasResource THEN << entry.resource.resourceType, entry.resource.id >>
    ELSE << entry.url[1], entry.url[2] >>

\* C38 as stated: deduplication drops no entry because an entry of another resource type
\* has the same id: when the accumulated entries hold Organization/p1 and Endpoint/p1,
\* an entry of each survives deduplicateHistoryEntries and is handed to validation.
C38_SameIdOtherTypeSurvives ==
    pc # "pulled" =>
        \A j \in DOMAIN input.entries :
            \E k \in DOMAIN output.deduplicated :
                aboutOf(output.deduplicated[k]) = aboutOf(input.entries[j])

\* what the code does: of the entries with one id, whatever their resource types, one
\* survives
OnePerIdAcrossTypes ==
    pc # "pulled" =>
        \A j, k \in DOMAIN output.deduplicated :
            aboutOf(output.deduplicated[j])[2] = aboutOf(output.deduplicated[k])[2] => j = k

-----------------------------------------------------------------------------
(* Properties of the configured roots (Spec) *)

\* the base URLs of the registry entries
registeredBases == { administrationDirectories[i].fhirBaseURL : i \in DOMAIN administrationDirectories }

\* C39 as stated: a configured root directory is never removed from the registry:
\* whatever the sources return, Endpoint DELETE entries with an empty fullUrl included,
\* every configured root is registered, and a run that has ended has synced it.
C39_RootsStayRegistered ==
    /\ Range(config.AdministrationDirectories) \subseteq registeredBases
    /\ \A c \in Callers :
          AboutToReturn(c) => Range(config.AdministrationDirectories) \subseteq Range(run[c].visited)

-----------------------------------------------------------------------------
(* TokenProvider.GetToken (lib/httpauth): concurrent callers of one provider (SpecToken) *)

\* the default of NewTokenProvider for refreshBuffer, in seconds
defaultRefreshBuffer == 30

\* NewTokenProvider: the refresh buffer of the provider
effectiveBuffer(refreshBuffer) ==
    IF refreshBuffer = 0 THEN defaultRefreshBuffer ELSE refreshBuffer

\* time.Now().Before(p.expiresAt.Add(-p.refreshBuffer))
tokenValid(p) == p.now < p.expiresAt - p.refreshBuffer

TokenCallers == { 1, 2 }

\* the lifetimes refreshFunc may give a token, in seconds
Lifetimes == { 15, 45, 90 }

\* what the provider knows of the last call of a caller
NoCall ==
    [ token |-> 0, err |-> FALSE, refreshed |-> FALSE, waited |-> FALSE, stored |-> 0 ]

\* the provider as NewTokenProvider returns it: no token (0), the zero expiry; the
\* clock at 0; mu free
InitToken ==
    /\ input \in [ refreshBuffer : { 0, 15 } ]
    /\ output = [ token |-> 0, expiresAt |-> 0, refreshBuffer |-> effectiveBuffer(input.refreshBuffer),
                  now |-> 0, readers |-> {}, writer |-> 0, refreshes |-> 0, calls |-> 0,
                  got |-> [ c \in TokenCallers |-> NoCall ] ]
    /\ pc = [ c \in TokenCallers |-> "idle" ]
    /\ config = << >>
    /\ administrationDirectories = << >>
    /\ directoryResourceTypes = << >>
    /\ lastUpdateTimes = << >>
    /\ stateFile = << >>
    /\ updateMux = 0
    /\ run = << >>
    /\ sync = << >>
    /\ runs = 0
    /\ prevFirst = << >>

tokenUnchanged ==
    UNCHANGED << config, administrationDirectories, directoryResourceTypes, lastUpdateTimes,
                 stateFile, updateMux, run, sync, runs, prevFirst, input >>

\* a caller enters GetToken
CallGetToken(c) ==
    /\ pc[c] = "idle"
    /\ output.calls < MaxRequests
    /\ output' = [ output EXCEPT !.calls = @ + 1, !.got[c] = NoCall ]
    /\ pc' = [ pc EXCEPT ![c] = "rlock" ]
    /\ tokenUnchanged

\* p.mu.RLock(): granted while no caller holds the write lock
AcquireRLock(c) ==
    /\ pc[c] = "rlock"
    /\ output.writer = 0
    /\ output' = [ output EXCEPT !.readers = @ \cup {c} ]
    /\ pc' = [ pc EXCEPT ![c] = "reading" ]
    /\ tokenUnchanged

\* the check under the read lock: the cached token is returned, or the caller goes on
\* to the write lock; p.mu.RUnlock() either way
ReadCached(c) ==
    /\ pc[c] = "reading"
    /\ IF tokenValid(output)
       THEN /\ output' = [ output EXCEPT !.readers = @ \ {c}, !.got[c].token = output.token ]
            /\ pc' = [ pc EXCEPT ![c] = "idle" ]
       ELSE /\ output' = [ output EXCEPT !.readers = @ \ {c} ]
            /\ pc' = [ pc EXCEPT ![c] = "lock" ]
    /\ tokenUnchanged

\* p.mu.Lock(): granted while no caller holds the lock in either mode
AcquireLock(c) ==
    /\ pc[c] = "lock"
    /\ output.writer = 0
    /\ output.readers = {}
    /\ output' = [ output EXCEPT !.writer = c ]
    /\ pc' = [ pc EXCEPT ![c] = "locked" ]
    /\ tokenUnchanged

\* a variant of DoubleCheck that goes on to refreshFunc without looking at the cache
refreshWithoutCheck(c) ==
    /\ pc[c] = "locked"
    /\ output' = [ output EXCEPT !.got = [ d \in TokenCallers |->
                      IF d # c /\ pc[d] = "lock" THEN [ @[d] EXCEPT !.waited = TRUE ]
                      ELSE @[d] ] ]
    /\ pc' = [ pc EXCEPT ![c] = "refresh" ]
    /\ tokenUnchanged

\* the check under the write lock: the token another caller stored meanwhile is
\* returned (and mu unlocked), or refreshFunc is called; the callers that wait for the
\* write lock at that moment are the ones that wait while this caller refreshes
DoubleCheck(c) ==
    /\ pc[c] = "locked"
    /\ IF tokenValid(output)
       THEN /\ output' = [ output EXCEPT !.writer = 0, !.got[c].token = output.token ]
            /\ pc' = [ pc EXCEPT ![c] = "idle" ]
       ELSE /\ output' = [ output EXCEPT !.got = [ d \in TokenCallers |->
                              IF d # c /\ pc[d] = "lock" THEN [ @[d] EXCEPT !.waited = TRUE ]
                              ELSE @[d] ] ]
            /\ pc' = [ pc EXCEPT ![c] = "refresh" ]
    /\ tokenUnchanged

\* refreshFunc returns a token: it is stored with its expiry and returned
RefreshSucceeds(c) ==
    /\ pc[c] = "refresh"
    /\ \E expiresIn \in Lifetimes :
          LET token == output.refreshes + 1
          IN  output' = [ output EXCEPT
                  !.token = token, !.expiresAt = output.now + expiresIn,
                  !.refreshes = token, !.writer = 0,
                  !.got = [ d \in TokenCallers |->
                              IF d = c THEN [ @[d] EXCEPT !.token = token, !.refreshed = TRUE ]
                              ELSE IF pc[d] = "lock" /\ @[d].waited
                              THEN [ @[d] EXCEPT !.stored = token ]
                              ELSE @[d] ] ]
    /\ pc' = [ pc EXCEPT ![c] = "idle" ]
    /\ tokenUnchanged

\* refreshFunc returns an error: GetToken returns it
RefreshFails(c) ==
    /\ pc[c] = "refresh"
    /\ output' = [ output EXCEPT !.refreshes = @ + 1, !.writer = 0,
                                 !.got[c].err = TRUE, !.got[c].refreshed = TRUE ]
    /\ pc' = [ pc EXCEPT ![c] = "idle" ]
    /\ tokenUnchanged

\* the clock goes on by a quarter of a minute
TimePasses ==
    /\ output.now < 15 * MaxTime
    /\ output' = [ output EXCEPT !.now = @ + 15 ]
    /\ UNCHANGED pc
    /\ tokenUnchanged

NextToken ==
    \/ \E c \in TokenCallers :
          \/ CallGetToken(c)
          \/ AcquireRLock(c)
          \/ ReadCached(c)
          \/ AcquireLock(c)
          \/ DoubleCheck(c)
          \/ RefreshSucceeds(c)
          \/ RefreshFails(c)
    \/ TimePasses

SpecToken == InitToken /\ [][NextToken]_vars

\* the current time is before expiresAt minus the refresh buffer, 30 seconds when 0 was given
BeforeExpiryMinusBuffer ==
    output.now < output.expiresAt - ( IF input.refreshBuffer = 0 THEN 30 ELSE input.refreshBuffer )

\* caller c takes the step of a check of the cache
Checks(c) == pc[c] \in { "reading", "locked" } /\ pc'[c] # pc[c]

\* the step returns the cached token to caller c without a refresh
ReturnsCached(c) ==
    /\ pc'[c] = "idle"
    /\ output'.got[c].token = output.token
    /\ ~output'.got[c].refreshed
    /\ output'.refreshes = output.refreshes

\* caller c has the write lock after it waited while the other caller refreshed and
\* stored a token
WaitedForStoredToken(c) ==
    pc[c] = "locked" /\ output.got[c].waited /\ output.got[c].stored # 0

\* no two callers are in refreshFunc; a check returns the cached token iff the time is
\* before expiresAt minus the buffer; a failed refresh returns an error and leaves token
\* and expiry as they were
GetTokenBasics ==
    /\ Cardinality({ c \in TokenCallers : pc'[c] = "refresh" }) <= 1
    /\ \A c \in TokenCallers :
          /\ Checks(c) => ( ReturnsCached(c) <=> BeforeExpiryMinusBuffer )
          /\ ( pc[c] = "refresh" /\ pc'[c] = "idle" /\ output'.got[c].err ) =>
                 /\ output'.got[c].token = 0
                 /\ output'.token = output.token
                 /\ output'.expiresAt = output.expiresAt

\* C40 as stated: the refresh function never runs in two callers at once; a cached
\* token is returned without refresh iff the time is before expiresAt minus the refresh
\* buffer (30 seconds when 0 is given); a caller that found no valid token and waited
\* while another caller refreshed reuses the token that caller stored instead of
\* refreshing again; a failed refresh returns an error and leaves token and expiry.
C40_WaitersAlwaysReuse ==
    [][ /\ GetTokenBasics
        /\ \A c \in TokenCallers :
              ( WaitedForStoredToken(c) /\ pc'[c] # pc[c] ) =>
                  ( ReturnsCached(c) /\ output'.got[c].token = output.got[c].stored ) ]_vars

\* C40: the refresh function never runs in two callers at once; a cached token is
\* returned without refresh iff the time is before expiresAt minus the refresh buffer
\* (30 seconds when 0 is given); a caller that found no valid token and waited while
\* another caller refreshed reuses the token that caller stored if the time is still
\* before its expiry minus the buffer when the waiter gets the lock, and refreshes again
\* otherwise; a failed refresh returns an error and leaves token and expiry.
C40_WaitersReuseValidToken ==
    [][ /\ GetTokenBasics
        /\ \A c \in TokenCallers :
              ( WaitedForStoredToken(c) /\ pc'[c] # pc[c] ) =>
                  IF BeforeExpiryMinusBuffer
                  THEN ReturnsCached(c) /\ output'.got[c].token = output.got[c].stored
                  ELSE pc'[c] = "refresh" ]_vars

\* a caller waited while the other refreshed and came back with the token the other
\* stored, without a refresh of its own
C40_WaiterReusedStoredToken ==
    \E c \in TokenCallers :
        /\ pc[c] = "idle"
        /\ output.got[c].waited
        /\ output.got[c].stored # 0
        /\ output.got[c].token = output.got[c].stored
        /\ ~output.got[c].refreshed
        /\ output.refreshes = 1

====
